---- MODULE Spec2Model ----
(***************************************************************************)
(* Serial link manager of the REACH robot-arm controller                   *)
(* (REACH/Software/app.py; REACH/software-with-vision-and-voice/app.py     *)
(* holds the same code with docstrings).                                   *)
(*                                                                         *)
(* Threads: the main thread (bootstrap), the auto_reconnect_loop thread,   *)
(* the serial_listener threads, and the HTTP request threads that run      *)
(* send_command and connect.  Every step below is one access to shared     *)
(* state (ser, listener_active, serial_lock, serial_buffer, history) or    *)
(* one call into the serial library.                                       *)
(*                                                                         *)
(* Time is counted in units of 10 ms, the length of the polling sleeps.    *)
(*                                                                         *)
(* The vision build also runs the camera stream                            *)
(* (REACH/software-with-vision-and-voice/robot_vision/camera.py): the      *)
(* caller of start() and stop() and the _loop thread, over cap, frame and  *)
(* _stop.                                                                  *)
(***************************************************************************)
EXTENDS Integers, Sequences, FiniteSets, TLC

\* ---------------------------------------------------------------- bounds
MaxHandles == 2      \* Serial objects alive at the same time
MaxListeners == 2    \* serial_listener threads alive at the same time
MaxCalls == 1        \* HTTP requests (one server thread each) in one run
MaxEmits == 1        \* chunks the device sends in one run
MaxRx == 2           \* bytes pending in the driver's input buffer
ReplyHorizon == 2    \* last clock value of the specification of the replies
MaxTime == 420        \* last clock value of the timed specification
LineBursts == 2       \* bursts in which the device sends one line
MaxOutages == 2       \* times the camera goes away in one run

\* ------------------------------------------------------ program constants
BufferCap == 100     \* deque(maxlen=100)
HistoryCap == 50     \* len(history) > 50
Timeout == 200       \* timeout=2.0 s
Grace == 5           \* grace = 0.05 s
PollInterval == 1    \* time.sleep(0.01) in wait_for_new_response
ReadTimeout == 100   \* serial.Serial(..., timeout=1)
ReopenAfter == 60    \* camera.py: if fail_streak >= 60

None == 0
Handles == 1..MaxHandles
Listeners == 1..MaxListeners
\* The server threads: one per request of a run, and one more for a request
\* that arrives while another is being served.
Callers == 1..(MaxCalls + 1)

DEFAULT_PORT == "COM3"
Ports == {"COM3", "COM4"}

NL == "\n"
SP == " "
BAD == "\\xff"
NoResponse == <<"No response">>

\* What the device may put on the wire in one burst: a whole line, the
\* beginning of a line, the terminator that ends it, a byte of line noise.
DeviceChunks == { <<"ACK", NL>>, <<"ERR">>, <<NL>>, <<BAD>> }
Commands == { <<"PING">>, <<SP, "PING", SP>> }

NoThread == <<>>
LThread(l) == <<"listener", l>>
WThread(c) == <<"request", c>>

VARIABLES
    ser,              \* global ser: None or a Serial object
    hState,           \* per Serial object: "free" (no such object), "open", "closed"
    hFail,            \* Serial objects whose I/O raises (device gone)
    hPort,            \* per Serial object: the port it was opened on
    listener_active,  \* global listener_active
    serial_lock,      \* holder of serial_lock, or NoThread
    serial_buffer,    \* deque(maxlen=100) of {'timestamp', 'data'}
    history,          \* list of {'cmd', 'response', 'timestamp'}
    rx,               \* bytes received from the device, not yet read
    tx,               \* byte strings written to the device
    deviceUp,         \* the device is plugged in and accepts an open
    now,              \* time.time()
    emits,            \* chunks sent by the device so far
    mainPc,           \* position of the main thread
    recPc,            \* position of auto_reconnect_loop
    recNew,           \* Serial object returned to auto_reconnect_loop, not yet stored
    recBroken,        \* auto_reconnect_loop: this iteration's probe raised
    lPc,              \* position of each serial_listener thread
    lHandle,          \* the Serial object a listener's readline() runs on
    lLine,            \* bytes a running readline() has taken so far
    lDeadline,        \* when a running readline() gives up waiting
    cPc,              \* position of each request thread
    cCmd,             \* send_command: cmd
    cHandle,          \* the Serial object a running write() or connect holds
    cPort,            \* connect: port
    since,            \* send_command: since
    start,            \* wait_for_new_response: start
    wake,             \* wait_for_new_response: end of the current sleep
    wItem,            \* wait_for_new_response: item returned by the scan
    resp,             \* send_command: response
    result,           \* the JSON result of the request
    cap,              \* CameraStream.cap: None, or the state of the VideoCapture it names
    frame,            \* CameraStream.frame: None (-1) or the latest frame grabbed
    _stop,            \* CameraStream._stop
    fail_streak,      \* _loop: fail_streak
    capNew,           \* what _try_open() returned to _reopen, not yet stored
    loopPc,           \* position of the _loop thread
    startPc,          \* position of the caller of start()
    stopPc,           \* position of the caller of stop()
    camUp,            \* the camera is plugged in and can be opened
    camLost,          \* the open VideoCapture lost its device: its reads fail
    camOutages        \* how many times the camera went away so far

hvars == <<ser, hState, hFail, hPort>>
envvars == <<rx, tx, deviceUp, emits>>
recvars == <<recPc, recNew, recBroken>>
lvars == <<lPc, lHandle, lLine, lDeadline>>
cvars == <<cPc, cCmd, cHandle, cPort, since, start, wake, wItem, resp, result>>
linkvars == <<ser, hState, hFail, hPort, listener_active, serial_lock, serial_buffer,
              history, rx, tx, deviceUp, now, emits, mainPc, recPc, recNew,
              recBroken, lPc, lHandle, lLine, lDeadline, cPc, cCmd, cHandle, cPort, since,
              start, wake, wItem, resp, result>>
camvars == <<cap, frame, _stop, fail_streak, capNew, loopPc, startPc, stopPc, camUp,
             camLost, camOutages>>
vars == <<linkvars, camvars>>

NoItem == [timestamp |-> -1, data |-> <<>>]
NoResult == [status |-> "none", message |-> <<>>]

\* ------------------------------------------------------- serial library
\* Variant that does not see a device that went away.
UsableIfOpen(h) == h # None /\ hState[h] = "open"

\* A Serial object can be used for I/O when it is open and its device is there.
Usable(h) == h # None /\ hState[h] = "open" /\ h \notin hFail

\* Variant of is_open that is true of a closed object too.
IsOpenOnceOpened(h) == hState[h] # "free"

\* Serial.is_open
IsOpen(h) == hState[h] = "open"

\* Serial.in_waiting raises on a closed port and on a port whose device is gone.
ProbeRaises(h) == ~Usable(h)

\* Serial.close()
CloseIn(st, h) == [st EXCEPT ![h] = IF @ = "open" THEN "closed" ELSE @]

\* serial.Serial(port, ...) returns a fresh object when the device accepts.
FreeHandles == {h \in Handles : hState[h] = "free"}
CanOpen == deviceUp
NewHandle == CHOOSE h \in FreeHandles : \A g \in FreeHandles : h <= g

\* The objects in use: those some variable of the next state still refers to.
\* An object no one refers to is finalised, which closes it (io.IOBase.__del__).
ReferencedNext(h) ==
    \/ ser' = h
    \/ recNew' = h
    \/ \E l \in Listeners : lHandle'[l] = h
    \/ \E c \in Callers : cHandle'[c] = h

SetHandles(st, fail, port) ==
    /\ hState' = [h \in Handles |-> IF ReferencedNext(h) THEN st[h] ELSE "free"]
    /\ hFail' = {h \in fail : ReferencedNext(h) /\ st[h] = "open"}
    /\ hPort' = [h \in Handles |-> IF ReferencedNext(h) THEN port[h] ELSE "none"]

KeepHandles == SetHandles(hState, hFail, hPort)

OpenHandles == {h \in Handles : hState[h] = "open"}

\* ------------------------------------------------------------ pure code
\* A decoding that keeps the bytes that are no valid text.
DecodeKeeping(bytes) == bytes

\* bytes.decode(errors='ignore') drops the bytes that are no valid text.
Decode(bytes) == SelectSeq(bytes, LAMBDA b : b # BAD)

IsWhite(b) == b \in {SP, NL}

RECURSIVE LStrip(_)
LStrip(t) == IF t # <<>> /\ IsWhite(Head(t)) THEN LStrip(Tail(t)) ELSE t

RECURSIVE RStrip(_)
RStrip(t) ==
    IF t # <<>> /\ IsWhite(t[Len(t)]) THEN RStrip(SubSeq(t, 1, Len(t) - 1)) ELSE t

\* str.lstrip() in the place of str.strip(): trailing whitespace stays.
StripLeft(t) == LStrip(t)

\* str.strip()
Strip(t) == RStrip(LStrip(t))

\* Index of the first line terminator in s, 0 when there is none.
RECURSIVE FindNL(_, _)
FindNL(s, i) == IF i > Len(s) THEN 0 ELSE IF s[i] = NL THEN i ELSE FindNL(s, i + 1)

\* Variants of the append: one that never evicts, one that refuses the new
\* item when the buffer is full.
BufferAppendAll(buf, item) == Append(buf, item)
BufferAppendIfRoom(buf, item) == IF Len(buf) >= BufferCap THEN buf ELSE Append(buf, item)

\* deque.appendleft in the place of deque.append: the new record goes first.
BufferAppendLeft(buf, item) ==
    IF Len(buf) < BufferCap THEN <<item>> \o buf
    ELSE <<item>> \o SubSeq(buf, 1, BufferCap - 1)

\* deque(maxlen=100).append
BufferAppend(buf, item) ==
    IF Len(buf) >= BufferCap THEN Append(Tail(buf), item) ELSE Append(buf, item)

\* Variants of the test with the window one tick wider, and with the bound
\* excluded.
QualifiesWider(item, since_time) == item.timestamp >= since_time - Grace - 1
QualifiesStrict(item, since_time) == item.timestamp > since_time - Grace

\* wait_for_new_response: the test of one buffered item.
Qualifies(item, since_time) == item.timestamp >= since_time - Grace

\* wait_for_new_response: the for loop over list(serial_buffer); the index of
\* the item it returns, 0 when it runs to the end.
RECURSIVE ScanFrom(_, _, _)
ScanFrom(i, snapshot, since_time) ==
    IF i > Len(snapshot) THEN 0
    ELSE IF Qualifies(snapshot[i], since_time) THEN i
    ELSE ScanFrom(i + 1, snapshot, since_time)

\* Variant of the scan that keeps the last item passing the test.
LastQualifying(snapshot, since_time) ==
    LET Q == {i \in 1..Len(snapshot) : Qualifies(snapshot[i], since_time)}
    IN IF Q = {} THEN 0 ELSE CHOOSE i \in Q : \A j \in Q : j <= i

FirstQualifying(snapshot, since_time) == ScanFrom(1, snapshot, since_time)

\* Variant of the while condition that goes round once more at the bound.
StillWaitingInclusive(t, start_time) == t - start_time <= Timeout

\* wait_for_new_response: the while condition.
StillWaiting(t, start_time) == t - start_time < Timeout

\* json.loads succeeds on the response.
IsJSON(response) == response = <<"{}">>

\* send_command: the result built from the response.
Classify(response) ==
    IF response = NoResponse
    THEN [status |-> "error", message |-> <<"No response from robot">>]
    ELSE IF IsJSON(response) THEN [status |-> "json", message |-> response]
    ELSE IF response # <<>> /\ response[1] = "ACK"
    THEN [status |-> "success", message |-> response]
    ELSE IF response # <<>> /\ response[1] = "ERR"
    THEN [status |-> "error", message |-> response]
    ELSE [status |-> "unknown", message |-> response]

\* A log that keeps the answered commands only: a timeout leaves no entry.
LogAppendedIfAnswered(h, cmd, response, t) ==
    IF response = NoResponse THEN h
    ELSE Append(h, [cmd |-> cmd, response |-> response, timestamp |-> t])

\* log_command, first statement
LogAppended(h, cmd, response, t) ==
    Append(h, [cmd |-> cmd, response |-> response, timestamp |-> t])

\* list.pop() in the place of list.pop(0): the newest entry goes.
PopLast(h) == SubSeq(h, 1, Len(h) - 1)

\* history.pop(0)
Pop0(h) == Tail(h)

\* log_command, second statement
LogTrimmed(h) == IF Len(h) > HistoryCap THEN Tail(h) ELSE h

\* --------------------------------------------------------------- camera
\* (REACH/software-with-vision-and-voice/robot_vision/camera.py)
NoFrame == -1

\* CameraStream.__init__ has run and start() has not been called: no capture,
\* no frame, _stop clear; the camera is plugged in.
CameraConstructed ==
    /\ cap = "None"
    /\ frame = NoFrame
    /\ _stop = FALSE
    /\ fail_streak = 0
    /\ capNew = "None"
    /\ loopPc = "unborn"
    /\ startPc = "idle"
    /\ stopPc = "idle"
    /\ camUp = TRUE
    /\ camLost = FALSE
    /\ camOutages = 0

\* _try_open(): an open VideoCapture when a backend opens the camera, else None
TryOpen == IF camUp THEN "open" ELSE "None"

\* if self.cap is not None: self.cap.release()
Released(c) == IF c = "None" THEN "None" ELSE "released"

\* ok, frame = self.cap.read(): ok when the capture is open and has its device
GrabOk == cap = "open" /\ camUp /\ ~camLost

\* A loop that reopens when more than the threshold of grabs have failed.
ShouldReopenLate(n) == n > ReopenAfter

\* if fail_streak >= 60
ShouldReopen(n) == n >= ReopenAfter

\* ----------------------------------------------------------------- Init
Init ==
    /\ ser = None
    /\ hState = [h \in Handles |-> "free"]
    /\ hFail = {}
    /\ hPort = [h \in Handles |-> "none"]
    /\ listener_active = FALSE
    /\ serial_lock = NoThread
    /\ serial_buffer = <<>>
    /\ history = <<>>
    /\ rx = <<>>
    /\ tx = <<>>
    /\ deviceUp \in BOOLEAN
    /\ now = 0
    /\ emits = 0
    /\ mainPc = "init"
    /\ recPc = "off"
    /\ recNew = None
    /\ recBroken = FALSE
    /\ lPc = [l \in Listeners |-> "unborn"]
    /\ lHandle = [l \in Listeners |-> None]
    /\ lLine = [l \in Listeners |-> <<>>]
    /\ lDeadline = [l \in Listeners |-> 0]
    /\ cPc = [c \in Callers |-> "idle"]
    /\ cCmd = [c \in Callers |-> <<>>]
    /\ cHandle = [c \in Callers |-> None]
    /\ cPort = [c \in Callers |-> "none"]
    /\ since = [c \in Callers |-> 0]
    /\ start = [c \in Callers |-> 0]
    /\ wake = [c \in Callers |-> 0]
    /\ wItem = [c \in Callers |-> NoItem]
    /\ resp = [c \in Callers |-> <<>>]
    /\ result = [c \in Callers |-> NoResult]
    /\ CameraConstructed

\* A listener slot a new thread can take: never started, or ended.
FreeSlots == {l \in Listeners : lPc[l] \in {"unborn", "dead"}}
NewListener == CHOOSE l \in FreeSlots : \A k \in FreeSlots : l <= k
LiveListeners == {l \in Listeners : lPc[l] \notin {"unborn", "dead"}}

\* threading.Thread(target=serial_listener, daemon=True).start()
StartListener(l) == lPc' = [lPc EXCEPT ![l] = "sleep"]

\* ------------------------------------------------------------ bootstrap
\* init_serial()
MainInitSerial ==
    /\ mainPc = "init"
    /\ CanOpen => FreeHandles # {}
    /\ mainPc' = "startReconnect"
    /\ IF CanOpen
       THEN /\ ser' = NewHandle
            /\ UNCHANGED <<recNew, recBroken, lHandle, cHandle>>
            /\ SetHandles([hState EXCEPT ![NewHandle] = "open"], hFail,
                          [hPort EXCEPT ![NewHandle] = DEFAULT_PORT])
       ELSE /\ ser' = None
            /\ UNCHANGED <<recNew, recBroken, lHandle, cHandle>>
            /\ KeepHandles
    /\ UNCHANGED <<listener_active, serial_lock, serial_buffer, history, envvars, now,
                   recPc, lPc, lLine, lDeadline, cPc, cCmd, cPort, since, start,
                   wake, wItem, resp, result>>
    /\ UNCHANGED camvars

\* threading.Thread(target=auto_reconnect_loop, daemon=True).start()
MainStartReconnect ==
    /\ mainPc = "startReconnect"
    /\ mainPc' = "startListener"
    /\ recPc' = "check"
    /\ UNCHANGED <<hvars, listener_active, serial_lock, serial_buffer, history, envvars,
                   now, recNew, recBroken, lvars, cvars>>
    /\ UNCHANGED camvars

\* threading.Thread(target=serial_listener, daemon=True).start()
MainStartListener ==
    /\ mainPc = "startListener"
    /\ FreeSlots # {}
    /\ mainPc' = "setFlag"
    /\ StartListener(NewListener)
    /\ UNCHANGED <<hvars, listener_active, serial_lock, serial_buffer, history, envvars,
                   now, recvars, lHandle, lLine, lDeadline, cvars>>
    /\ UNCHANGED camvars

\* listener_active = True; app.run(...)
MainSetFlag ==
    /\ mainPc = "setFlag"
    /\ mainPc' = "serving"
    /\ listener_active' = TRUE
    /\ UNCHANGED <<hvars, serial_lock, serial_buffer, history, envvars, now, recvars, lvars, cvars>>
    /\ UNCHANGED camvars

Main == MainInitSerial \/ MainStartReconnect \/ MainStartListener \/ MainSetFlag

\* A loop that reopens the port on every round, healthy or not.
RecCheckAlwaysReopens ==
    /\ recPc = "check"
    /\ recPc' = IF ser = None THEN "open" ELSE "close"
    /\ recBroken' = (ser # None)
    /\ UNCHANGED <<hvars, listener_active, serial_lock, serial_buffer, history, envvars,
                   now, mainPc, recNew, lvars, cvars>>
    /\ UNCHANGED camvars

\* ------------------------------------------------- auto_reconnect_loop
\* if ser is None: ... else: try: _ = ser.in_waiting
RecCheck ==
    /\ recPc = "check"
    /\ recPc' = IF ser = None THEN "open"
                ELSE IF ProbeRaises(ser) THEN "close"
                ELSE "sleep"
    /\ recBroken' = (ser # None /\ ProbeRaises(ser))
    /\ UNCHANGED <<hvars, listener_active, serial_lock, serial_buffer, history, envvars,
                   now, mainPc, recNew, lvars, cvars>>
    /\ UNCHANGED camvars

\* except: try: ser.close() except: pass
RecClose ==
    /\ recPc = "close"
    /\ recPc' = "clear"
    /\ UNCHANGED <<ser, recNew, lHandle, cHandle>>
    /\ IF ser = None THEN KeepHandles
       ELSE SetHandles(CloseIn(hState, ser), hFail, hPort)
    /\ UNCHANGED <<listener_active, serial_lock, serial_buffer, history, envvars, now,
                   recBroken, mainPc, lPc, lLine, lDeadline, cPc, cCmd, cPort, since, start,
                   wake, wItem, resp, result>>
    /\ UNCHANGED camvars

\* ser = None; needs_reconnect = True
RecClear ==
    /\ recPc = "clear"
    /\ recPc' = "flag"
    /\ ser' = None
    /\ UNCHANGED <<recNew, recBroken, lHandle, cHandle>>
    /\ KeepHandles
    /\ UNCHANGED <<listener_active, serial_lock, serial_buffer, history, envvars, now,
                   mainPc, lPc, lLine, lDeadline, cPc, cCmd, cPort, since, start,
                   wake, wItem, resp, result>>
    /\ UNCHANGED camvars

\* listener_active = False
RecFlag ==
    /\ recPc = "flag"
    /\ recPc' = "open"
    /\ listener_active' = FALSE
    /\ UNCHANGED <<hvars, serial_lock, serial_buffer, history, envvars, now, mainPc, recNew, recBroken, lvars, cvars>>
    /\ UNCHANGED camvars

\* if needs_reconnect: try: serial.Serial(DEFAULT_PORT, ...)
\* except: ser = None
RecOpen ==
    /\ recPc = "open"
    /\ CanOpen => FreeHandles # {}
    /\ IF CanOpen
       THEN /\ recPc' = "assign"
            /\ recNew' = NewHandle
            /\ UNCHANGED <<ser, lHandle, cHandle>>
            /\ SetHandles([hState EXCEPT ![NewHandle] = "open"], hFail,
                          [hPort EXCEPT ![NewHandle] = DEFAULT_PORT])
       ELSE /\ recPc' = "sleep"
            /\ ser' = None
            /\ UNCHANGED <<recNew, lHandle, cHandle>>
            /\ KeepHandles
    /\ UNCHANGED <<listener_active, serial_lock, serial_buffer, history, envvars, now,
                   recBroken, mainPc, lPc, lLine, lDeadline, cPc, cCmd, cPort, since, start,
                   wake, wItem, resp, result>>
    /\ UNCHANGED camvars

\* ser = <the object serial.Serial returned>
RecAssign ==
    /\ recPc = "assign"
    /\ recPc' = "testflag"
    /\ ser' = recNew
    /\ recNew' = None
    /\ UNCHANGED <<lHandle, cHandle>>
    /\ KeepHandles
    /\ UNCHANGED <<listener_active, serial_lock, serial_buffer, history, envvars, now,
                   recBroken, mainPc, lPc, lLine, lDeadline, cPc, cCmd, cPort, since, start,
                   wake, wItem, resp, result>>
    /\ UNCHANGED camvars

\* A loop that does not consult listener_active before it spawns.
RecSpawnsAnyway ==
    /\ recPc = "testflag"
    /\ recPc' = "spawn"
    /\ UNCHANGED <<hvars, listener_active, serial_lock, serial_buffer, history, envvars,
                   now, mainPc, recNew, recBroken, lvars, cvars>>
    /\ UNCHANGED camvars

\* if not listener_active:
RecTestFlag ==
    /\ recPc = "testflag"
    /\ recPc' = IF listener_active THEN "sleep" ELSE "spawn"
    /\ UNCHANGED <<hvars, listener_active, serial_lock, serial_buffer, history, envvars,
                   now, mainPc, recNew, recBroken, lvars, cvars>>
    /\ UNCHANGED camvars

\* threading.Thread(target=serial_listener, daemon=True).start()
RecSpawn ==
    /\ recPc = "spawn"
    /\ FreeSlots # {}
    /\ recPc' = "setflag"
    /\ StartListener(NewListener)
    /\ UNCHANGED <<hvars, listener_active, serial_lock, serial_buffer, history, envvars,
                   now, mainPc, recNew, recBroken, lHandle, lLine, lDeadline, cvars>>
    /\ UNCHANGED camvars

\* listener_active = True
RecSetFlag ==
    /\ recPc = "setflag"
    /\ recPc' = "sleep"
    /\ listener_active' = TRUE
    /\ UNCHANGED <<hvars, serial_lock, serial_buffer, history, envvars, now, mainPc, recNew, recBroken, lvars, cvars>>
    /\ UNCHANGED camvars

\* A loop that goes round again only while ser names an object: it ends
\* after an attempt that failed.
RecSleepConnected ==
    /\ recPc = "sleep"
    /\ ser # None
    /\ recPc' = "check"
    /\ recBroken' = FALSE
    /\ UNCHANGED <<hvars, listener_active, serial_lock, serial_buffer, history, envvars,
                   now, mainPc, recNew, lvars, cvars>>
    /\ UNCHANGED camvars

\* time.sleep(5): the loop goes round again at some later time.
RecSleep ==
    /\ recPc = "sleep"
    /\ recPc' = "check"
    /\ recBroken' = FALSE
    /\ UNCHANGED <<hvars, listener_active, serial_lock, serial_buffer, history, envvars,
                   now, mainPc, recNew, lvars, cvars>>
    /\ UNCHANGED camvars

Reconnector ==
    \/ RecCheck \/ RecClose \/ RecClear \/ RecFlag \/ RecOpen
    \/ RecAssign \/ RecTestFlag \/ RecSpawn \/ RecSetFlag \/ RecSleep

\* ------------------------------------------------------ serial_listener
\* A listener that enters its block without waiting for serial_lock.
ListenerEnters(l) ==
    /\ lPc[l] = "sleep"
    /\ serial_lock' = LThread(l)
    /\ lPc' = [lPc EXCEPT ![l] = "probe"]
    /\ UNCHANGED <<hvars, listener_active, serial_buffer, history, envvars, now, mainPc, recvars, lHandle, lLine, lDeadline, cvars>>
    /\ UNCHANGED camvars

\* time.sleep(0.01) has ended; with serial_lock:
ListenerAcquire(l) ==
    /\ lPc[l] = "sleep"
    /\ serial_lock = NoThread
    /\ serial_lock' = LThread(l)
    /\ lPc' = [lPc EXCEPT ![l] = "probe"]
    /\ UNCHANGED <<hvars, listener_active, serial_buffer, history, envvars, now, mainPc, recvars, lHandle, lLine, lDeadline, cvars>>
    /\ UNCHANGED camvars

\* A listener that closes the port when the probe of in_waiting raises.
ListenerProbeClosing(l) ==
    /\ lPc[l] = "probe"
    /\ UNCHANGED <<ser, recvars, lHandle, cHandle>>
    /\ IF ser = None \/ (~ProbeRaises(ser) /\ rx = <<>>)
       THEN /\ lPc' = [lPc EXCEPT ![l] = "sleep"]
            /\ serial_lock' = NoThread
            /\ KeepHandles
       ELSE IF ProbeRaises(ser)
       THEN /\ lPc' = [lPc EXCEPT ![l] = "dead"]
            /\ serial_lock' = NoThread
            /\ SetHandles(CloseIn(hState, ser), hFail, hPort)
       ELSE /\ lPc' = [lPc EXCEPT ![l] = "readline"]
            /\ UNCHANGED serial_lock
            /\ KeepHandles
    /\ UNCHANGED <<listener_active, serial_buffer, history, envvars, now, mainPc,
                   lLine, lDeadline, cPc, cCmd, cPort, since, start, wake, wItem,
                   resp, result>>
    /\ UNCHANGED camvars

\* if ser and ser.in_waiting: an exception of in_waiting is caught nowhere; it
\* leaves the with block (releasing the lock) and ends the thread.
ListenerProbe(l) ==
    /\ lPc[l] = "probe"
    /\ IF ser = None \/ (~ProbeRaises(ser) /\ rx = <<>>)
       THEN /\ lPc' = [lPc EXCEPT ![l] = "sleep"]
            /\ serial_lock' = NoThread
       ELSE IF ProbeRaises(ser)
       THEN /\ lPc' = [lPc EXCEPT ![l] = "dead"]
            /\ serial_lock' = NoThread
       ELSE /\ lPc' = [lPc EXCEPT ![l] = "readline"]
            /\ UNCHANGED serial_lock
    /\ UNCHANGED <<hvars, listener_active, serial_buffer, history, envvars, now, mainPc, recvars, lHandle, lLine, lDeadline, cvars>>
    /\ UNCHANGED camvars

\* try: ser.readline() -- the call begins on the object ser names now; an
\* exception (ser is None, port closed, device gone) is caught and printed.
ListenerReadline(l) ==
    /\ lPc[l] = "readline"
    /\ IF Usable(ser)
       THEN /\ lPc' = [lPc EXCEPT ![l] = "reading"]
            /\ lHandle' = [lHandle EXCEPT ![l] = ser]
            /\ lLine' = [lLine EXCEPT ![l] = <<>>]
            /\ lDeadline' = [lDeadline EXCEPT ![l] = now + ReadTimeout]
            /\ UNCHANGED serial_lock
       ELSE /\ lPc' = [lPc EXCEPT ![l] = "sleep"]
            /\ serial_lock' = NoThread
            /\ UNCHANGED <<lHandle, lLine, lDeadline>>
    /\ UNCHANGED <<hvars, listener_active, serial_buffer, history, envvars, now, mainPc, recvars, cvars>>
    /\ UNCHANGED camvars

\* line = <bytes>.decode(errors='ignore').strip()
\* if line: serial_buffer.append({'timestamp': time.time(), 'data': line})
Delivered(buf, bytes, t) ==
    LET line == Strip(Decode(bytes))
    IN IF line # <<>> THEN BufferAppend(buf, [timestamp |-> t, data |-> line]) ELSE buf

\* Variant of readline() that waits for the terminator without a timeout.
ReadNeverTimesOut(l) == ~Usable(lHandle[l]) \/ FindNL(rx, 1) > 0

\* readline() runs: it takes bytes up to the first terminator; without one
\* it takes what is there and waits, each wait ending after the port's read
\* timeout; it raises when the port was closed or the device went away.
\* When it returns the line is filed and the with block is left.
ReadReturns(l) ==
    \/ ~Usable(lHandle[l])
    \/ FindNL(rx, 1) > 0
    \/ rx = <<>> /\ now >= lDeadline[l]

ListenerRead(l) ==
    /\ lPc[l] = "reading"
    /\ rx # <<>> \/ ReadReturns(l)
    /\ IF ReadReturns(l)
       THEN /\ lPc' = [lPc EXCEPT ![l] = "sleep"]
            /\ serial_lock' = NoThread
            /\ lHandle' = [lHandle EXCEPT ![l] = None]
            /\ lLine' = [lLine EXCEPT ![l] = <<>>]
            /\ lDeadline' = [lDeadline EXCEPT ![l] = 0]
            /\ IF ~Usable(lHandle[l])
               THEN UNCHANGED <<serial_buffer, rx>>
               ELSE IF FindNL(rx, 1) > 0
               THEN /\ serial_buffer' =
                         Delivered(serial_buffer,
                                   lLine[l] \o SubSeq(rx, 1, FindNL(rx, 1)), now)
                    /\ rx' = SubSeq(rx, FindNL(rx, 1) + 1, Len(rx))
               ELSE /\ serial_buffer' = Delivered(serial_buffer, lLine[l], now)
                    /\ UNCHANGED rx
       ELSE /\ lLine' = [lLine EXCEPT ![l] = @ \o rx]
            /\ rx' = <<>>
            /\ lDeadline' = [lDeadline EXCEPT ![l] = now + ReadTimeout]
            /\ UNCHANGED <<lPc, serial_lock, lHandle, serial_buffer>>
    /\ UNCHANGED <<ser, recNew, recBroken, cHandle>>
    /\ KeepHandles
    /\ UNCHANGED <<listener_active, history, tx, deviceUp, emits, now, mainPc,
                   recPc, cPc, cCmd, cPort, since, start, wake, wItem, resp, result>>
    /\ UNCHANGED camvars

Listener(l) ==
    \/ ListenerAcquire(l) \/ ListenerProbe(l) \/ ListenerReadline(l) \/ ListenerRead(l)

\* --------------------------------------------------------- send_command
Failed(msg) == [status |-> "error", message |-> <<msg>>]

\* Request c arrives: the server starts a thread for it (requests are
\* numbered in the order they arrive).
Arrives(c) == IF c = 1 THEN TRUE ELSE cPc[c - 1] # "idle"

\* The handler returns its result r.
Finish(c, r) ==
    /\ cPc' = [cPc EXCEPT ![c] = "done"]
    /\ result' = [result EXCEPT ![c] = r]

\* cmd = data['command'].strip()
\* if ser is None or not ser.is_open: return 'Serial port not available'
\* since = time.time()
SendBegin(c, command) ==
    /\ mainPc = "serving"
    /\ cPc[c] = "idle"
    /\ Arrives(c)
    /\ cCmd' = [cCmd EXCEPT ![c] = Strip(command)]
    /\ IF ser = None \/ ~IsOpen(ser)
       THEN /\ Finish(c, Failed("Serial port not available"))
            /\ UNCHANGED since
       ELSE /\ cPc' = [cPc EXCEPT ![c] = "write"]
            /\ since' = [since EXCEPT ![c] = now]
            /\ UNCHANGED result
    /\ UNCHANGED <<hvars, listener_active, serial_lock, serial_buffer, history, envvars,
                   now, mainPc, recvars, lvars, cHandle, cPort, start, wake, wItem, resp>>
    /\ UNCHANGED camvars

\* ser.write(...) is entered, on the object ser names now and without
\* serial_lock; an exception gives 'Failed to send command'.
SendWrite(c) ==
    /\ cPc[c] = "write"
    /\ IF Usable(ser)
       THEN /\ cPc' = [cPc EXCEPT ![c] = "writing"]
            /\ cHandle' = [cHandle EXCEPT ![c] = ser]
            /\ UNCHANGED result
       ELSE /\ Finish(c, Failed("Failed to send command"))
            /\ UNCHANGED cHandle
    /\ UNCHANGED <<ser, recNew, recBroken, lHandle>>
    /\ KeepHandles
    /\ UNCHANGED <<listener_active, serial_lock, serial_buffer, history, envvars, now,
                   mainPc, recPc, lPc, lLine, lDeadline, cCmd, cPort, since, start,
                   wake, wItem, resp>>
    /\ UNCHANGED camvars

\* ser.write((cmd + '\n').encode()) returns; wait_for_new_response(since)
\* is entered: start = time.time()
SendWritten(c) ==
    /\ cPc[c] = "writing"
    /\ IF Usable(cHandle[c])
       THEN /\ cPc' = [cPc EXCEPT ![c] = "test"]
            /\ tx' = Append(tx, cCmd[c] \o <<NL>>)
            /\ start' = [start EXCEPT ![c] = now]
            /\ UNCHANGED result
       ELSE /\ Finish(c, Failed("Failed to send command"))
            /\ UNCHANGED <<tx, start>>
    /\ cHandle' = [cHandle EXCEPT ![c] = None]
    /\ UNCHANGED <<ser, recNew, recBroken, lHandle>>
    /\ KeepHandles
    /\ UNCHANGED <<listener_active, serial_lock, serial_buffer, history, rx, deviceUp,
                   emits, now, mainPc, recPc, lPc, lLine, lDeadline, cCmd, cPort,
                   since, wake, wItem, resp>>
    /\ UNCHANGED camvars

\* while time.time() - start < timeout: ... return "No response"
WaitTest(c) ==
    /\ cPc[c] = "test"
    /\ IF StillWaiting(now, start[c])
       THEN /\ cPc' = [cPc EXCEPT ![c] = "lock"]
            /\ UNCHANGED resp
       ELSE /\ cPc' = [cPc EXCEPT ![c] = "log"]
            /\ resp' = [resp EXCEPT ![c] = NoResponse]
    /\ UNCHANGED <<hvars, listener_active, serial_lock, serial_buffer, history, envvars,
                   now, mainPc, recvars, lvars, cCmd, cHandle, cPort, since, start,
                   wake, wItem, result>>
    /\ UNCHANGED camvars

\* with serial_lock:
WaitAcquire(c) ==
    /\ cPc[c] = "lock"
    /\ serial_lock = NoThread
    /\ serial_lock' = WThread(c)
    /\ cPc' = [cPc EXCEPT ![c] = "scan"]
    /\ UNCHANGED <<hvars, listener_active, serial_buffer, history, envvars, now, mainPc, recvars, lvars, cCmd, cHandle, cPort, since, start, wake,
                   wItem, resp, result>>
    /\ UNCHANGED camvars

\* The sequence without its element i.
Without(seq, i) == SubSeq(seq, 1, i - 1) \o SubSeq(seq, i + 1, Len(seq))

\* A scan that takes the line it returns out of the buffer.
WaitScanConsuming(c) ==
    /\ cPc[c] = "scan"
    /\ serial_lock' = NoThread
    /\ LET i == FirstQualifying(serial_buffer, since[c])
       IN IF i > 0
          THEN /\ wItem' = [wItem EXCEPT ![c] = serial_buffer[i]]
               /\ resp' = [resp EXCEPT ![c] = serial_buffer[i].data]
               /\ cPc' = [cPc EXCEPT ![c] = "log"]
               /\ serial_buffer' = Without(serial_buffer, i)
               /\ UNCHANGED wake
          ELSE /\ wake' = [wake EXCEPT ![c] = now + PollInterval]
               /\ cPc' = [cPc EXCEPT ![c] = "wsleep"]
               /\ UNCHANGED <<wItem, resp, serial_buffer>>
    /\ UNCHANGED <<hvars, listener_active, history, envvars, now, mainPc, recvars, lvars, cCmd, cHandle, cPort, since, start, result>>
    /\ UNCHANGED camvars

\* for item in list(serial_buffer): if ts >= since_time - grace: return item['data']
\* and, after the loop, the with block is left and time.sleep(0.01) begins.
WaitScan(c) ==
    /\ cPc[c] = "scan"
    /\ serial_lock' = NoThread
    /\ LET i == FirstQualifying(serial_buffer, since[c])
       IN IF i > 0
          THEN /\ wItem' = [wItem EXCEPT ![c] = serial_buffer[i]]
               /\ resp' = [resp EXCEPT ![c] = serial_buffer[i].data]
               /\ cPc' = [cPc EXCEPT ![c] = "log"]
               /\ UNCHANGED wake
          ELSE /\ wake' = [wake EXCEPT ![c] = now + PollInterval]
               /\ cPc' = [cPc EXCEPT ![c] = "wsleep"]
               /\ UNCHANGED <<wItem, resp>>
    /\ UNCHANGED <<hvars, listener_active, serial_buffer, history, envvars, now, mainPc, recvars, lvars, cCmd, cHandle, cPort, since, start, result>>
    /\ UNCHANGED camvars

\* time.sleep(0.01) has ended
WaitWake(c) ==
    /\ cPc[c] = "wsleep"
    /\ now >= wake[c]
    /\ cPc' = [cPc EXCEPT ![c] = "test"]
    /\ UNCHANGED <<hvars, listener_active, serial_lock, serial_buffer, history, envvars,
                   now, mainPc, recvars, lvars, cCmd, cHandle, cPort, since, start,
                   wake, wItem, resp, result>>
    /\ UNCHANGED camvars

\* log_command: history.append({...})
LogAppend(c) ==
    /\ cPc[c] = "log"
    /\ history' = LogAppended(history, cCmd[c], resp[c], now)
    /\ cPc' = [cPc EXCEPT ![c] = "trim"]
    /\ UNCHANGED <<hvars, listener_active, serial_lock, serial_buffer, envvars, now,
                   mainPc, recvars, lvars, cCmd, cHandle, cPort, since, start,
                   wake, wItem, resp, result>>
    /\ UNCHANGED camvars

\* log_command: if len(history) > 50: history.pop(0); then the result is built
LogTrim(c) ==
    /\ cPc[c] = "trim"
    /\ history' = LogTrimmed(history)
    /\ Finish(c, Classify(resp[c]))
    /\ UNCHANGED <<hvars, listener_active, serial_lock, serial_buffer, envvars, now,
                   mainPc, recvars, lvars, cCmd, cHandle, cPort, since, start,
                   wake, wItem, resp>>
    /\ UNCHANGED camvars

\* log_command, second statement, when other requests run at the same time:
\* len(history) > 50 is evaluated, and history.pop(0) is a step of its own.
LogCheck(c) ==
    /\ cPc[c] = "trim"
    /\ IF Len(history) > HistoryCap
       THEN /\ cPc' = [cPc EXCEPT ![c] = "pop"]
            /\ UNCHANGED result
       ELSE Finish(c, Classify(resp[c]))
    /\ UNCHANGED <<hvars, listener_active, serial_lock, serial_buffer, history, envvars,
                   now, mainPc, recvars, lvars, cCmd, cHandle, cPort, since, start,
                   wake, wItem, resp>>
    /\ UNCHANGED camvars

LogPop(c) ==
    /\ cPc[c] = "pop"
    /\ history' = Pop0(history)
    /\ Finish(c, Classify(resp[c]))
    /\ UNCHANGED <<hvars, listener_active, serial_lock, serial_buffer, envvars, now,
                   mainPc, recvars, lvars, cCmd, cHandle, cPort, since, start,
                   wake, wItem, resp>>
    /\ UNCHANGED camvars

\* The response is sent and the request's thread ends.
Return(c) ==
    /\ cPc[c] = "done"
    /\ cPc' = [cPc EXCEPT ![c] = "gone"]
    /\ cCmd' = [cCmd EXCEPT ![c] = <<>>]
    /\ cPort' = [cPort EXCEPT ![c] = "none"]
    /\ since' = [since EXCEPT ![c] = 0]
    /\ start' = [start EXCEPT ![c] = 0]
    /\ wake' = [wake EXCEPT ![c] = 0]
    /\ wItem' = [wItem EXCEPT ![c] = NoItem]
    /\ resp' = [resp EXCEPT ![c] = <<>>]
    /\ result' = [result EXCEPT ![c] = NoResult]
    /\ UNCHANGED <<hvars, listener_active, serial_lock, serial_buffer, history, envvars,
                   now, mainPc, recvars, lvars, cHandle>>
    /\ UNCHANGED camvars

Send(c) ==
    \/ \E command \in Commands : SendBegin(c, command)

SendSteps(c) ==
    \/ SendWrite(c) \/ SendWritten(c)
    \/ WaitTest(c) \/ WaitAcquire(c) \/ WaitScan(c) \/ WaitWake(c)
    \/ LogAppend(c) \/ LogTrim(c)

\* -------------------------------------------------------------- connect
\* if ser and ser.is_open:
ConnectBegin(c, port) ==
    /\ mainPc = "serving"
    /\ cPc[c] = "idle"
    /\ Arrives(c)
    /\ cPort' = [cPort EXCEPT ![c] = port]
    /\ cPc' = [cPc EXCEPT ![c] = IF ser # None /\ IsOpen(ser) THEN "kclose" ELSE "kopen"]
    /\ UNCHANGED <<hvars, listener_active, serial_lock, serial_buffer, history, envvars,
                   now, mainPc, recvars, lvars, cCmd, cHandle, since, start, wake, wItem,
                   resp, result>>
    /\ UNCHANGED camvars

\* ser.close(), on the object ser names now (None: the exception is reported)
ConnectClose(c) ==
    /\ cPc[c] = "kclose"
    /\ UNCHANGED <<ser, recNew, recBroken, lHandle, cHandle>>
    /\ IF ser = None
       THEN /\ Finish(c, Failed("connect failed"))
            /\ KeepHandles
       ELSE /\ cPc' = [cPc EXCEPT ![c] = "kopen"]
            /\ UNCHANGED result
            /\ SetHandles(CloseIn(hState, ser), hFail, hPort)
    /\ UNCHANGED <<listener_active, serial_lock, serial_buffer, history, envvars, now,
                   mainPc, recPc, lPc, lLine, lDeadline, cCmd, cPort, since, start,
                   wake, wItem, resp>>
    /\ UNCHANGED camvars

\* serial.Serial(port, BAUD_RATE, timeout=1)
ConnectOpen(c) ==
    /\ cPc[c] = "kopen"
    /\ CanOpen => FreeHandles # {}
    /\ IF CanOpen
       THEN /\ cPc' = [cPc EXCEPT ![c] = "kassign"]
            /\ cHandle' = [cHandle EXCEPT ![c] = NewHandle]
            /\ UNCHANGED <<ser, recNew, recBroken, lHandle, result>>
            /\ SetHandles([hState EXCEPT ![NewHandle] = "open"], hFail,
                          [hPort EXCEPT ![NewHandle] = cPort[c]])
       ELSE /\ Finish(c, Failed("connect failed"))
            /\ UNCHANGED <<ser, recNew, recBroken, lHandle, cHandle>>
            /\ KeepHandles
    /\ UNCHANGED <<listener_active, serial_lock, serial_buffer, history, envvars, now,
                   mainPc, recPc, lPc, lLine, lDeadline, cCmd, cPort, since, start,
                   wake, wItem, resp>>
    /\ UNCHANGED camvars

\* ser = <the object serial.Serial returned>; return 'Connected to ...'
ConnectAssign(c) ==
    /\ cPc[c] = "kassign"
    /\ ser' = cHandle[c]
    /\ cHandle' = [cHandle EXCEPT ![c] = None]
    /\ Finish(c, [status |-> "success", message |-> <<"Connected to", cPort[c]>>])
    /\ UNCHANGED <<recNew, recBroken, lHandle>>
    /\ KeepHandles
    /\ UNCHANGED <<listener_active, serial_lock, serial_buffer, history, envvars, now,
                   mainPc, recPc, lPc, lLine, lDeadline, cCmd, cPort, since, start,
                   wake, wItem, resp>>
    /\ UNCHANGED camvars

Connect(c) ==
    \/ \E port \in Ports : ConnectBegin(c, port)

ConnectSteps(c) ==
    \/ ConnectClose(c) \/ ConnectOpen(c) \/ ConnectAssign(c)

\* ------------------------------------------------------------ get_status
\* What /status answers.
StatusResult(connected) ==
    [status |-> "status",
     message |-> IF connected THEN <<"connected">> ELSE <<"not connected">>]

\* connected = False; if ser:
StatusBegin(c) ==
    /\ mainPc = "serving"
    /\ cPc[c] = "idle"
    /\ Arrives(c)
    /\ IF ser = None
       THEN Finish(c, StatusResult(FALSE))
       ELSE /\ cPc' = [cPc EXCEPT ![c] = "sprobe"]
            /\ UNCHANGED result
    /\ UNCHANGED <<hvars, listener_active, serial_lock, serial_buffer, history, envvars,
                   now, mainPc, recvars, lvars, cCmd, cHandle, cPort, since, start,
                   wake, wItem, resp>>
    /\ UNCHANGED camvars

\* A status that tidies up as the reconnect loop does when the probe raises:
\* it closes the port and clears listener_active.
StatusProbeClosing(c) ==
    /\ cPc[c] = "sprobe"
    /\ UNCHANGED <<ser, recvars, lHandle, cHandle>>
    /\ IF ser = None \/ ProbeRaises(ser)
       THEN /\ Finish(c, StatusResult(FALSE))
            /\ listener_active' = FALSE
            /\ IF ser = None THEN KeepHandles
               ELSE SetHandles(CloseIn(hState, ser), hFail, hPort)
       ELSE /\ cPc' = [cPc EXCEPT ![c] = "sopen"]
            /\ UNCHANGED <<result, listener_active>>
            /\ KeepHandles
    /\ UNCHANGED <<serial_lock, serial_buffer, history, envvars, now, mainPc, lPc,
                   lLine, lDeadline, cCmd, cPort, since, start, wake, wItem, resp>>
    /\ UNCHANGED camvars

\* try: _ = ser.in_waiting            except: connected = False
\* (on the object ser names now; None has no in_waiting)
StatusProbe(c) ==
    /\ cPc[c] = "sprobe"
    /\ IF ser = None \/ ProbeRaises(ser)
       THEN Finish(c, StatusResult(FALSE))
       ELSE /\ cPc' = [cPc EXCEPT ![c] = "sopen"]
            /\ UNCHANGED result
    /\ UNCHANGED <<hvars, listener_active, serial_lock, serial_buffer, history, envvars,
                   now, mainPc, recvars, lvars, cCmd, cHandle, cPort, since, start,
                   wake, wItem, resp>>
    /\ UNCHANGED camvars

\* connected = ser.is_open            except: connected = False
\* return jsonify({'connected': connected})
StatusOpen(c) ==
    /\ cPc[c] = "sopen"
    /\ Finish(c, StatusResult(ser # None /\ IsOpen(ser)))
    /\ UNCHANGED <<hvars, listener_active, serial_lock, serial_buffer, history, envvars,
                   now, mainPc, recvars, lvars, cCmd, cHandle, cPort, since, start,
                   wake, wItem, resp>>
    /\ UNCHANGED camvars

StatusSteps(c) == StatusProbe(c) \/ StatusOpen(c)

\* ---------------------------------------------------------- environment
\* The cable is pulled or the device resets: every open port starts to fail.
Unplug ==
    /\ deviceUp
    /\ deviceUp' = FALSE
    /\ hFail' = OpenHandles
    /\ rx' = <<>>
    /\ UNCHANGED <<ser, hState, hPort, listener_active, serial_lock, serial_buffer,
                   history, tx, emits, now, mainPc, recvars, lvars, cvars>>
    /\ UNCHANGED camvars

\* The device is back: a port can be opened again.
Replug ==
    /\ ~deviceUp
    /\ deviceUp' = TRUE
    /\ UNCHANGED <<hvars, listener_active, serial_lock, serial_buffer, history, rx, tx,
                   emits, now, mainPc, recvars, lvars, cvars>>
    /\ UNCHANGED camvars

\* The device sends bytes; they wait in the driver's input buffer.
DeviceEmit(chunk) ==
    /\ deviceUp
    /\ \E h \in Handles : Usable(h)
    /\ emits < MaxEmits
    /\ Len(rx) + Len(chunk) <= MaxRx
    /\ rx' = rx \o chunk
    /\ emits' = emits + 1
    /\ UNCHANGED <<hvars, listener_active, serial_lock, serial_buffer, history, tx,
                   deviceUp, now, mainPc, recvars, lvars, cvars>>
    /\ UNCHANGED camvars

\* 10 ms pass.
Tick(limit) ==
    /\ now < limit
    /\ now' = now + 1
    /\ UNCHANGED <<hvars, listener_active, serial_lock, serial_buffer, history, envvars,
                   mainPc, recvars, lvars, cvars>>
    /\ UNCHANGED camvars

\* ------------------------------------------------------ CameraStream
\* start(): self.cap = self._try_open()
CamStartOpen ==
    /\ startPc = "idle"
    /\ startPc' = "spawn"
    /\ cap' = TryOpen
    /\ camLost' = FALSE
    /\ UNCHANGED <<frame, _stop, fail_streak, capNew, loopPc, stopPc, camUp, camOutages>>
    /\ UNCHANGED linkvars

\* start(): threading.Thread(target=self._loop, daemon=True).start(); return
\* _loop: fail_streak = 0
CamStartThread ==
    /\ startPc = "spawn"
    /\ startPc' = "returned"
    /\ loopPc' = "test"
    /\ fail_streak' = 0
    /\ UNCHANGED <<cap, frame, _stop, capNew, stopPc, camUp, camLost, camOutages>>
    /\ UNCHANGED linkvars

CamStart == CamStartOpen \/ CamStartThread

\* while not self._stop:
LoopTest ==
    /\ loopPc = "test"
    /\ loopPc' = IF _stop THEN "exited" ELSE "check"
    /\ UNCHANGED <<cap, frame, _stop, fail_streak, capNew, startPc, stopPc, camUp,
                   camLost, camOutages>>
    /\ UNCHANGED linkvars

\* if self.cap is None: time.sleep(0.5); continue
LoopCheck ==
    /\ loopPc = "check"
    /\ loopPc' = IF cap = "None" THEN "test" ELSE "read"
    /\ UNCHANGED <<cap, frame, _stop, fail_streak, capNew, startPc, stopPc, camUp,
                   camLost, camOutages>>
    /\ UNCHANGED linkvars

\* ok, frame = self.cap.read()
\* if ok: self.frame = frame; fail_streak = 0
\* else: fail_streak += 1; if fail_streak >= 60: ...
LoopRead ==
    /\ loopPc = "read"
    /\ IF GrabOk
       THEN /\ frame' = camOutages
            /\ fail_streak' = 0
            /\ loopPc' = "sleep"
       ELSE /\ fail_streak' = fail_streak + 1
            /\ loopPc' = IF ShouldReopen(fail_streak + 1) THEN "release" ELSE "sleep"
            /\ UNCHANGED frame
    /\ UNCHANGED <<cap, _stop, capNew, startPc, stopPc, camUp, camLost, camOutages>>
    /\ UNCHANGED linkvars

\* _reopen(): if self.cap is not None: self.cap.release()
LoopRelease ==
    /\ loopPc = "release"
    /\ loopPc' = "open"
    /\ cap' = Released(cap)
    /\ UNCHANGED <<frame, _stop, fail_streak, capNew, startPc, stopPc, camUp, camLost,
                   camOutages>>
    /\ UNCHANGED linkvars

\* _reopen(): self._try_open() runs and returns
LoopOpen ==
    /\ loopPc = "open"
    /\ loopPc' = "assign"
    /\ capNew' = TryOpen
    /\ camLost' = FALSE
    /\ UNCHANGED <<cap, frame, _stop, fail_streak, startPc, stopPc, camUp, camOutages>>
    /\ UNCHANGED linkvars

\* _reopen(): self.cap = <what _try_open returned>; then fail_streak = 0
LoopAssign ==
    /\ loopPc = "assign"
    /\ loopPc' = "sleep"
    /\ cap' = capNew
    /\ capNew' = "None"
    /\ fail_streak' = 0
    /\ UNCHANGED <<frame, _stop, startPc, stopPc, camUp, camLost, camOutages>>
    /\ UNCHANGED linkvars

\* time.sleep(interval * 0.7)
LoopSleep ==
    /\ loopPc = "sleep"
    /\ loopPc' = "test"
    /\ UNCHANGED <<cap, frame, _stop, fail_streak, capNew, startPc, stopPc, camUp,
                   camLost, camOutages>>
    /\ UNCHANGED linkvars

CamLoop ==
    \/ LoopTest \/ LoopCheck \/ LoopRead \/ LoopRelease \/ LoopOpen \/ LoopAssign
    \/ LoopSleep

\* stop(): self._stop = True
StopSet ==
    /\ stopPc = "idle"
    /\ startPc = "returned"
    /\ stopPc' = "release"
    /\ _stop' = TRUE
    /\ UNCHANGED <<cap, frame, fail_streak, capNew, loopPc, startPc, camUp, camLost,
                   camOutages>>
    /\ UNCHANGED linkvars

\* stop(): if self.cap is not None: self.cap.release(); return
StopRelease ==
    /\ stopPc = "release"
    /\ stopPc' = "returned"
    /\ cap' = Released(cap)
    /\ UNCHANGED <<frame, _stop, fail_streak, capNew, loopPc, startPc, camUp, camLost,
                   camOutages>>
    /\ UNCHANGED linkvars

CamStop == StopSet \/ StopRelease

\* The camera is unplugged: it cannot be opened and an open capture loses it.
CamUnplug ==
    /\ camUp
    /\ camOutages < MaxOutages
    /\ camUp' = FALSE
    /\ camLost' = (cap = "open" \/ capNew = "open")
    /\ camOutages' = camOutages + 1
    /\ UNCHANGED <<cap, frame, _stop, fail_streak, capNew, loopPc, startPc, stopPc>>
    /\ UNCHANGED linkvars

\* The camera is plugged in again: it can be opened; whether a capture that
\* lost it works again depends on the backend.
CamReplug ==
    /\ ~camUp
    /\ camUp' = TRUE
    /\ camLost' \in {camLost, FALSE}
    /\ UNCHANGED <<cap, frame, _stop, fail_streak, capNew, loopPc, startPc, stopPc,
                   camOutages>>
    /\ UNCHANGED linkvars

\* ------------------------------------------------------- specifications
\* The clients keep to the discipline the protocol asks of them: a request is
\* issued when the one before it has been answered.
OneAtATime(c) == c <= MaxCalls /\ \A d \in Callers : cPc[d] \in {"idle", "gone"}

\* A client posts /connect.
RequestConnect(c) == OneAtATime(c) /\ Connect(c)

\* Connection management: bootstrap, the reconnect loop, the listeners, the
\* connect requests and the device being unplugged and plugged in again.
Next ==
    \/ Main
    \/ Reconnector
    \/ \E l \in Listeners : Listener(l)
    \/ \E c \in Callers : RequestConnect(c) \/ ConnectSteps(c) \/ Return(c)
    \/ Unplug
    \/ Replug
    \/ \E chunk \in DeviceChunks : DeviceEmit(chunk)

Spec == Init /\ [][Next]_vars

\* n lines the listener filed, one per clock unit, before the run begins and
\* too long before it for a command of the run to take them.
Preloaded(n) == [i \in 1..n |-> [timestamp |-> i - n - Grace - 1, data |-> <<"ERR">>]]

\* Lines the listener filed before the run begins.
InitialBuffers == { <<>>, <<[timestamp |-> 0, data |-> <<"ERR">>]>> }

\* A line buffer that is full or one line short of it.
FullBuffers == { Preloaded(BufferCap - 1), Preloaded(BufferCap) }

\* The state the bootstrap leaves when the device is there: the port open,
\* one listener running, the reconnect loop asleep, the server serving;
\* possibly a line of the device already in the buffer.
Serving(buffers, histories) ==
    /\ ser = 1
    /\ hState = [h \in Handles |-> IF h = 1 THEN "open" ELSE "free"]
    /\ hFail = {}
    /\ hPort = [h \in Handles |-> IF h = 1 THEN DEFAULT_PORT ELSE "none"]
    /\ listener_active = TRUE
    /\ serial_lock = NoThread
    /\ serial_buffer \in buffers
    /\ history \in histories
    /\ rx = <<>>
    /\ tx = <<>>
    /\ deviceUp = TRUE
    /\ now = 0
    /\ emits = 0
    /\ mainPc = "serving"
    /\ recPc = "sleep"
    /\ recNew = None
    /\ recBroken = FALSE
    /\ lPc = [l \in Listeners |-> IF l = 1 THEN "sleep" ELSE "unborn"]
    /\ lHandle = [l \in Listeners |-> None]
    /\ lLine = [l \in Listeners |-> <<>>]
    /\ lDeadline = [l \in Listeners |-> 0]
    /\ cPc = [c \in Callers |-> "idle"]
    /\ cCmd = [c \in Callers |-> <<>>]
    /\ cHandle = [c \in Callers |-> None]
    /\ cPort = [c \in Callers |-> "none"]
    /\ since = [c \in Callers |-> 0]
    /\ start = [c \in Callers |-> 0]
    /\ wake = [c \in Callers |-> 0]
    /\ wItem = [c \in Callers |-> NoItem]
    /\ resp = [c \in Callers |-> <<>>]
    /\ result = [c \in Callers |-> NoResult]
    /\ CameraConstructed

InitServing == Serving(InitialBuffers, {<<>>})

\* The same with the line buffer at its capacity.
InitFull == Serving(FullBuffers, {<<>>})

\* A request thread has a step to take now (it is not asleep, not waiting
\* for serial_lock and not finished).
RequestRuns(c) ==
    \/ cPc[c] \in {"write", "writing", "test", "scan", "log", "trim", "done"}
    \/ cPc[c] = "lock" /\ serial_lock = NoThread
    \/ cPc[c] = "wsleep" /\ now >= wake[c]

\* A listener inside its with block has a step to take now (it is not
\* waiting inside readline()).
ListenerRuns(l) ==
    \/ lPc[l] \in {"probe", "readline"}
    \/ lPc[l] = "reading" /\ (rx # <<>> \/ ReadReturns(l))

\* The instants at which a request arrives and at which the device sends.
ArrivalTimes == {0, Grace, Grace + 1}
EmitTimes == {0, 1, Timeout - 1, Timeout}

\* A client posts /send.
RequestSend(c) == now \in ArrivalTimes /\ OneAtATime(c) /\ Send(c)

\* The device sends a burst.
TimedEmit(chunk) == now \in EmitTimes /\ DeviceEmit(chunk)

\* Time passes while the request threads and the holder of serial_lock wait:
\* their steps take no time, their sleeps and waits do.
TimePasses ==
    /\ \A c \in Callers : ~RequestRuns(c)
    /\ \A l \in Listeners : ~ListenerRuns(l)
    /\ \E c \in Callers : cPc[c] \notin {"idle", "gone"} \/ now <= Grace
    /\ Tick(MaxTime)

\* What the device sends while a command waits: a whole line, the beginning
\* of a line, a byte of line noise.
TimedChunks == { <<"ACK", NL>>, <<"ERR">>, <<BAD>> }

\* Commands and replies over an established link, in real time.
TimedNext ==
    \/ \E l \in Listeners : Listener(l)
    \/ \E c \in Callers : RequestSend(c) \/ SendSteps(c) \/ Return(c)
    \/ \E chunk \in TimedChunks : TimedEmit(chunk)
    \/ TimePasses

SpecTimed == InitServing /\ [][TimedNext]_vars

\* ------------------------------------------------------------- fairness
\* Every thread that can run is scheduled again and again; the device stays
\* plugged in.
LiveNext ==
    \/ Main
    \/ Reconnector
    \/ \E l \in Listeners : Listener(l)
    \/ \E c \in Callers : RequestConnect(c) \/ ConnectSteps(c) \/ Return(c)
    \/ \E chunk \in DeviceChunks : DeviceEmit(chunk)

\* The program is started with the device plugged in.
InitLive == Init /\ deviceUp

SpecLive ==
    /\ InitLive
    /\ [][LiveNext]_vars
    /\ WF_vars(Main)
    /\ WF_vars(Reconnector)
    /\ \A l \in Listeners : WF_vars(Listener(l))
    /\ \A c \in Callers : WF_vars(ConnectSteps(c) \/ Return(c))

\* ------------------------------------------------------ sending, any link
\* A client posts /send, whatever the state of the link.
RequestGate(c) == OneAtATime(c) /\ Send(c)

\* A client posts /connect for the port the program opens by itself.
GateConnect(c) == OneAtATime(c) /\ ConnectBegin(c, DEFAULT_PORT)

\* What the device sends here: acknowledgements.
GateChunks == { <<"ACK", NL>> }

\* Connection management together with /send up to the point where the command
\* is written (the wait for the reply is followed in SpecTimed).
GateNext ==
    \/ Reconnector
    \/ \E l \in Listeners : Listener(l)
    \/ \E c \in Callers : GateConnect(c) \/ ConnectSteps(c) \/ Return(c)
    \/ \E c \in Callers : RequestGate(c) \/ SendWrite(c) \/ SendWritten(c)
    \/ Unplug
    \/ Replug
    \/ \E chunk \in GateChunks : DeviceEmit(chunk)

\* The bootstrap is over and nothing has been received yet.
InitGate == Serving({<<>>}, {<<>>})

SpecGate == InitGate /\ [][GateNext]_vars

\* ------------------------------------------------------------ retrying
\* The program left to itself while the device comes and goes; every thread
\* that can run is scheduled again and again.
RetryNext ==
    \/ Main
    \/ Reconnector
    \/ \E l \in Listeners : Listener(l)
    \/ Unplug
    \/ Replug
    \/ \E chunk \in GateChunks : DeviceEmit(chunk)

SpecRetry ==
    /\ Init
    /\ [][RetryNext]_vars
    /\ WF_vars(Main)
    /\ WF_vars(Reconnector)
    /\ \A l \in Listeners : WF_vars(Listener(l))

\* ---------------------------------------------------------- the replies
\* The lines a device answers with: an acknowledgement, an error, a JSON
\* document, some other word, and the words the program uses for a timeout.
ReplyChunks ==
    { <<"ACK", NL>>, <<"ERR", NL>>, <<"{}", NL>>, <<"OK", NL>>, <<"No response", NL>> }

\* The device answers.
ReplyEmit(chunk) == DeviceEmit(chunk)

\* The first polls of a wait: time passes as in TimePasses, up to ReplyHorizon.
ShortWait ==
    /\ \A c \in Callers : ~RequestRuns(c)
    /\ \A l \in Listeners : ~ListenerRuns(l)
    /\ \E c \in Callers : cPc[c] \notin {"idle", "gone"}
    /\ Tick(ReplyHorizon)

\* A command and the device's reply to it, from the write to the result.
ReplyNext ==
    \/ \E l \in Listeners : Listener(l)
    \/ \E c \in Callers : RequestSend(c) \/ SendSteps(c) \/ Return(c)
    \/ \E chunk \in ReplyChunks : ReplyEmit(chunk)
    \/ ShortWait

SpecReply == InitServing /\ [][ReplyNext]_vars

\* ------------------------------------------------------- invalid bytes
\* Lines of the device with bytes in them that are no valid text.
NoisyLines == { <<BAD, "ACK", NL>>, <<"ACK", BAD, NL>>, <<BAD, NL>> }

\* The device sends such a line while the input buffer is empty.
NoisyEmit(line) ==
    /\ deviceUp
    /\ \E h \in Handles : Usable(h)
    /\ emits < MaxEmits
    /\ rx = <<>>
    /\ rx' = line
    /\ emits' = emits + 1
    /\ UNCHANGED <<hvars, listener_active, serial_lock, serial_buffer, history, tx,
                   deviceUp, now, mainPc, recvars, lvars, cvars>>
    /\ UNCHANGED camvars

NoisyNext ==
    \/ \E l \in Listeners : Listener(l)
    \/ \E c \in Callers : RequestSend(c) \/ SendSteps(c) \/ Return(c)
    \/ \E line \in NoisyLines : NoisyEmit(line)
    \/ ShortWait

SpecNoisy == InitGate /\ [][NoisyNext]_vars

\* ------------------------------------------------- commands as posted
\* Command strings a client may post: with whitespace before, after and
\* inside, and of whitespace only.
PostedCommands ==
    Commands \cup { <<NL, "PING", SP, NL>>, <<SP>>, <<"GO", SP, "UP">>, <<"GO", SP, "UP", NL>> }

PostSend(c) ==
    /\ now \in ArrivalTimes
    /\ OneAtATime(c)
    /\ \E command \in PostedCommands : SendBegin(c, command)

PostNext ==
    \/ \E l \in Listeners : Listener(l)
    \/ \E c \in Callers : PostSend(c) \/ SendSteps(c) \/ Return(c)
    \/ \E chunk \in GateChunks : ReplyEmit(chunk)
    \/ ShortWait

SpecPost == InitGate /\ [][PostNext]_vars

\* ------------------------------------------------ one send after another
\* A client posts /send when the requests before it have been answered.
SeqSend(c) ==
    /\ now \in ArrivalTimes
    /\ \A d \in Callers : cPc[d] \in {"idle", "done", "gone"}
    /\ Send(c)

SeqNext ==
    \/ \E l \in Listeners : Listener(l)
    \/ \E c \in Callers : SeqSend(c) \/ SendSteps(c) \/ Return(c)
    \/ \E chunk \in GateChunks : TimedEmit(chunk)
    \/ TimePasses

SpecSeq == InitGate /\ [][SeqNext]_vars

\* ------------------------------------------------------ requests overlap
\* n commands logged before the run begins.
Logged(n) ==
    [i \in 1..n |-> [cmd |-> <<"PING">>, response |-> <<"ACK">>, timestamp |-> i - n - 1]]

\* A history that is full or one entry short of it.
FullHistories == { Logged(HistoryCap - 1), Logged(HistoryCap) }

InitLog == Serving({<<>>}, FullHistories)

\* A client posts /send while other requests may be in progress.
OverlapSend(c) == now \in ArrivalTimes /\ Send(c)

\* The steps of send_command with those of log_command taken one by one.
OverlapSteps(c) ==
    \/ SendWrite(c) \/ SendWritten(c)
    \/ WaitTest(c) \/ WaitAcquire(c) \/ WaitScan(c) \/ WaitWake(c)
    \/ LogAppend(c) \/ LogCheck(c) \/ LogPop(c)

LogNext ==
    \/ \E l \in Listeners : Listener(l)
    \/ \E c \in Callers : OverlapSend(c) \/ OverlapSteps(c) \/ Return(c)
    \/ \E chunk \in GateChunks : ReplyEmit(chunk)
    \/ ShortWait

SpecLog == InitLog /\ [][LogNext]_vars

\* ------------------------------------------------- a line in several bursts
\* The device sends each of its lines in LineBursts bursts: the text first,
\* the end of the line with its terminator last.
LineHead == <<"ERR">>
LineTail == <<"ACK", NL>>

\* The lines the device has begun to send.
LinesBegun == (emits + LineBursts - 1) \div LineBursts

SplitEmit ==
    /\ now \in EmitTimes
    /\ deviceUp
    /\ \E h \in Handles : Usable(h)
    /\ emits < MaxEmits * LineBursts
    /\ LET chunk == IF emits % LineBursts = LineBursts - 1 THEN LineTail ELSE LineHead
       IN /\ Len(rx) + Len(chunk) <= MaxRx
          /\ rx' = rx \o chunk
    /\ emits' = emits + 1
    /\ UNCHANGED <<hvars, listener_active, serial_lock, serial_buffer, history, tx,
                   deviceUp, now, mainPc, recvars, lvars, cvars>>
    /\ UNCHANGED camvars

SplitNext ==
    \/ \E l \in Listeners : Listener(l)
    \/ \E c \in Callers : RequestSend(c) \/ SendSteps(c) \/ Return(c)
    \/ SplitEmit
    \/ TimePasses

SpecSplit == InitGate /\ [][SplitNext]_vars

\* Commands and replies when the line buffer is full.
SpecBuffer == InitFull /\ [][ReplyNext]_vars

\* ------------------------------------------------------ the exchange log
\* The state the bootstrap leaves when the device is not there: init_serial()
\* failed, no port is open, the listener runs, the reconnect loop is asleep
\* after an attempt that failed.
InitAbsent ==
    /\ ser = None
    /\ hState = [h \in Handles |-> "free"]
    /\ hFail = {}
    /\ hPort = [h \in Handles |-> "none"]
    /\ listener_active = TRUE
    /\ serial_lock = NoThread
    /\ serial_buffer = <<>>
    /\ history = <<>>
    /\ rx = <<>>
    /\ tx = <<>>
    /\ deviceUp = FALSE
    /\ now = 0
    /\ emits = 0
    /\ mainPc = "serving"
    /\ recPc = "sleep"
    /\ recNew = None
    /\ recBroken = FALSE
    /\ lPc = [l \in Listeners |-> IF l = 1 THEN "sleep" ELSE "unborn"]
    /\ lHandle = [l \in Listeners |-> None]
    /\ lLine = [l \in Listeners |-> <<>>]
    /\ lDeadline = [l \in Listeners |-> 0]
    /\ cPc = [c \in Callers |-> "idle"]
    /\ cCmd = [c \in Callers |-> <<>>]
    /\ cHandle = [c \in Callers |-> None]
    /\ cPort = [c \in Callers |-> "none"]
    /\ since = [c \in Callers |-> 0]
    /\ start = [c \in Callers |-> 0]
    /\ wake = [c \in Callers |-> 0]
    /\ wItem = [c \in Callers |-> NoItem]
    /\ resp = [c \in Callers |-> <<>>]
    /\ result = [c \in Callers |-> NoResult]
    /\ CameraConstructed

\* The program serves, with the port open or with no port.
InitRecord == InitGate \/ InitAbsent

\* A client posts /send as the program has begun to serve.
RecordSend(c) == now = 0 /\ OneAtATime(c) /\ Send(c)

\* The cable is pulled as the program has begun to serve.
EarlyUnplug == now = 0 /\ Unplug

\* A command from its arrival to its result, in real time: the port is open
\* or there is none, the device answers, stays silent, or is unplugged before
\* or while the command is written.
RecordNext ==
    \/ \E l \in Listeners : Listener(l)
    \/ \E c \in Callers : RecordSend(c) \/ SendSteps(c) \/ Return(c)
    \/ EarlyUnplug
    \/ \E chunk \in GateChunks : TimedEmit(chunk)
    \/ TimePasses

SpecRecord == InitRecord /\ [][RecordNext]_vars

\* ------------------------------------------------------- several listeners
\* The state the bootstrap leaves when the reconnect loop opened the port and
\* started a listener before the main thread set listener_active: the port
\* open, two listeners running, the reconnect loop asleep, the server
\* serving; possibly a line of the device already in the buffer.
InitTwoListeners ==
    /\ ser = 1
    /\ hState = [h \in Handles |-> IF h = 1 THEN "open" ELSE "free"]
    /\ hFail = {}
    /\ hPort = [h \in Handles |-> IF h = 1 THEN DEFAULT_PORT ELSE "none"]
    /\ listener_active = TRUE
    /\ serial_lock = NoThread
    /\ serial_buffer \in InitialBuffers
    /\ history = <<>>
    /\ rx = <<>>
    /\ tx = <<>>
    /\ deviceUp = TRUE
    /\ now = 0
    /\ emits = 0
    /\ mainPc = "serving"
    /\ recPc = "sleep"
    /\ recNew = None
    /\ recBroken = FALSE
    /\ lPc = [l \in Listeners |-> IF l <= 2 THEN "sleep" ELSE "unborn"]
    /\ lHandle = [l \in Listeners |-> None]
    /\ lLine = [l \in Listeners |-> <<>>]
    /\ lDeadline = [l \in Listeners |-> 0]
    /\ cPc = [c \in Callers |-> "idle"]
    /\ cCmd = [c \in Callers |-> <<>>]
    /\ cHandle = [c \in Callers |-> None]
    /\ cPort = [c \in Callers |-> "none"]
    /\ since = [c \in Callers |-> 0]
    /\ start = [c \in Callers |-> 0]
    /\ wake = [c \in Callers |-> 0]
    /\ wItem = [c \in Callers |-> NoItem]
    /\ resp = [c \in Callers |-> <<>>]
    /\ result = [c \in Callers |-> NoResult]
    /\ CameraConstructed

\* Commands and replies in real time while two listener loops file the lines.
OrderNext ==
    \/ \E l \in Listeners : Listener(l)
    \/ \E c \in Callers : RequestSend(c) \/ SendSteps(c) \/ Return(c)
    \/ \E chunk \in GateChunks : TimedEmit(chunk)
    \/ TimePasses

SpecOrder == InitTwoListeners /\ [][OrderNext]_vars

\* ------------------------------------------------------------ the status
\* A client asks for the status.
RequestStatus(c) == OneAtATime(c) /\ StatusBegin(c)

\* /status while the reconnect loop and the listeners look after the link and
\* the device comes and goes.
StatusNext ==
    \/ Reconnector
    \/ \E l \in Listeners : Listener(l)
    \/ \E c \in Callers : RequestStatus(c) \/ StatusSteps(c) \/ Return(c)
    \/ Unplug
    \/ Replug
    \/ \E chunk \in GateChunks : DeviceEmit(chunk)

SpecStatus == InitGate /\ [][StatusNext]_vars

\* ------------------------------------------------------------- the camera
\* The camera stream from start() to stop() while the camera comes and goes.
CameraNext ==
    \/ CamStart
    \/ CamLoop
    \/ CamStop
    \/ CamUnplug
    \/ CamReplug

SpecCamera == InitGate /\ [][CameraNext]_vars

\* The camera stream left running: its threads are scheduled again and
\* again, and a camera that went away is plugged in again.
CameraLiveNext ==
    \/ CamStart
    \/ CamLoop
    \/ CamUnplug
    \/ CamReplug

SpecCameraLive ==
    /\ InitGate
    /\ [][CameraLiveNext]_vars
    /\ WF_vars(CamStart)
    /\ WF_vars(CamLoop)
    /\ WF_vars(CamReplug)

\* =============================================================== claims

\* C1: every write of send_command to the serial handle is serialized with
\* the listener's reads through serial_lock: send is never inside write()
\* while a listener is inside its with serial_lock block.
C1_WriteExcludesListenerRead ==
    \A c \in Callers : cPc[c] = "writing" =>
        \A l \in Listeners : serial_lock # LThread(l)

\* C2: at most one connection handle is open at any time.
C2_AtMostOneOpenHandle == Cardinality(OpenHandles) <= 1

\* A listener step that raises an I/O exception: the probe or the read meets
\* a port that is closed or whose device is gone.
ListenerRaises(l) ==
    \/ lPc[l] = "probe" /\ ser # None /\ ProbeRaises(ser)
    \/ lPc[l] = "readline" /\ ser # None /\ ~Usable(ser)
    \/ lPc[l] = "reading" /\ ~Usable(lHandle[l])

\* C5: a listener whose probe or read raises an I/O exception clears
\* listener_active and ends; it does not go on running.
C5_ListenerErrorClearsFlagAndReturns ==
    [][\A l \in Listeners :
          (ListenerRaises(l) /\ lPc'[l] # lPc[l]) =>
              (lPc'[l] = "dead" /\ ~listener_active')]_vars

\* C3: a reconnect tick that found the probe failing closes the stale handle,
\* clears ser, and, the device accepting, stores a freshly opened handle; when
\* the tick ends after such a reconnect a listener is running.
C3_ReconnectRecovers ==
    [][/\ (recPc = "close" /\ recPc' = "clear") => (ser' # None => hState'[ser'] # "open")
       /\ (recPc = "clear" /\ recPc' = "flag") => ser' = None
       /\ (recPc = "open" /\ recPc' = "assign") =>
              (recNew' # None /\ hState'[recNew'] = "open" /\ recNew' \notin hFail')
       /\ (recPc = "assign" /\ recPc' = "testflag") => (ser' = recNew /\ hState'[ser'] = "open")
       /\ (/\ recBroken
           /\ recPc \in {"testflag", "setflag"} /\ recPc' = "sleep"
           /\ hState'[ser'] = "open" /\ ser' \notin hFail')
          => LiveListeners' # {}
      ]_vars

\* C4: the reconnect loop restarts the listener if it died: once the server
\* is serving, whenever no listener thread is left, eventually one is running
\* again (the device stays plugged in and every thread keeps being scheduled).
C4_DeadListenerRestarted ==
    (mainPc = "serving" /\ LiveListeners = {}) ~> (LiveListeners # {})

\* Request c is past wait_for_new_response.
Answered(c) == cPc[c] \in {"log", "trim", "done"}

\* The buffered records a query with this since may return.
InWindow(buf, since_time) ==
    {i \in 1..Len(buf) : buf[i].timestamp >= since_time - Grace}

\* C6: a line wait_for_new_response returns was observed no more than grace
\* before the query timestamp: observed_at >= since - grace.
C6_ReturnedLineWithinGrace ==
    \A c \in Callers :
        (Answered(c) /\ wItem[c] # NoItem) => wItem[c].timestamp >= since[c] - Grace

\* A line was returned while an older record, out of the window, is buffered.
C6_Witness ==
    \E c \in Callers :
        /\ cPc[c] = "log" /\ wItem[c] # NoItem
        /\ \E i \in 1..Len(serial_buffer) :
               serial_buffer[i].timestamp < since[c] - Grace

\* C7: each poll scans the snapshot front to back and returns the
\* earliest-inserted record with observed_at >= since - grace; with no such
\* record the poll returns nothing and the wait sleeps.
C7_FirstInBufferOrder ==
    [][\A c \in Callers :
          (cPc[c] = "scan" /\ cPc'[c] # "scan") =>
              LET Q == InWindow(serial_buffer, since[c])
              IN IF Q = {}
                 THEN cPc'[c] = "wsleep" /\ wItem'[c] = wItem[c]
                 ELSE /\ cPc'[c] = "log"
                      /\ \E i \in Q : /\ \A j \in Q : i <= j
                                      /\ wItem'[c] = serial_buffer[i]
                                      /\ resp'[c] = serial_buffer[i].data
      ]_vars

\* Two different records were in the window and the first was returned.
C7_Witness ==
    \E c \in Callers :
        /\ cPc[c] = "log" /\ Len(serial_buffer) >= 2
        /\ wItem[c] = serial_buffer[1]
        /\ 2 \in InWindow(serial_buffer, since[c])
        /\ serial_buffer[2].data # serial_buffer[1].data

\* Record i of the buffer was observed at t0 with since <= t0 + grace, and no
\* record buffered before it was.
LineForQuery(buf, i, since_time) ==
    /\ since_time <= buf[i].timestamp + Grace
    /\ \A j \in 1..(i - 1) : since_time > buf[j].timestamp + Grace

TimeoutResult == [status |-> "error", message |-> <<"No response from robot">>]

\* C9 as stated: if no line arrives within timeout after since, send returns
\* the timeout sentinel.
C9_NoLineAfterSinceGivesSentinel ==
    \A c \in Callers :
        (/\ cPc[c] = "log"
         /\ \A i \in 1..Len(serial_buffer) : serial_buffer[i].timestamp < since[c])
        => resp[c] = NoResponse

\* C9: the wait returns the sentinel exactly when its loop test finds the
\* timeout elapsed, so not before timeout has passed since the query; a line
\* is returned only if a poll found it in the window; send answers the
\* sentinel with 'No response from robot'.
C9_SentinelAtTimeout ==
    /\ [][\A c \in Callers :
             (cPc[c] = "test" /\ cPc'[c] # "test") =>
                 IF now - start[c] >= Timeout
                 THEN cPc'[c] = "log" /\ resp'[c] = NoResponse
                 ELSE cPc'[c] = "lock" /\ resp'[c] = resp[c]
         ]_vars
    /\ [](\A c \in Callers :
             Answered(c) =>
                 \/ /\ wItem[c] = NoItem /\ resp[c] = NoResponse
                    /\ now - since[c] >= Timeout
                 \/ /\ wItem[c] # NoItem /\ resp[c] = wItem[c].data
                    /\ \E i \in InWindow(serial_buffer, since[c]) :
                           serial_buffer[i] = wItem[c])
    /\ [](\A c \in Callers :
             (cPc[c] = "done" /\ resp[c] = NoResponse) => result[c] = TimeoutResult)

\* The sentinel was returned at the instant the timeout elapsed.
C9_Witness ==
    \E c \in Callers :
        /\ cPc[c] = "done" /\ resp[c] = NoResponse
        /\ result[c] = TimeoutResult
        /\ now - start[c] = Timeout

\* C10: when send times out, the time elapsed since the query is within
\* [timeout, timeout + poll_interval], whatever the listener does.
C10_TimeoutElapsedBounded ==
    \A c \in Callers :
        (cPc[c] = "log" /\ wItem[c] = NoItem /\ resp[c] = NoResponse) =>
            /\ now - since[c] >= Timeout
            /\ now - since[c] <= Timeout + PollInterval

\* The results of send_command that report a failure of the link.
NotAvailable == [status |-> "error", message |-> <<"Serial port not available">>]
SendFailed == [status |-> "error", message |-> <<"Failed to send command">>]

\* Request c takes its first step as a /send.
SendArrives(c) == cPc[c] = "idle" /\ cPc'[c] # "idle" /\ cPort'[c] = cPort[c]

C12_BrokenLinkFailsAtOnce ==
    [][\A c \in Callers :
          /\ (SendArrives(c) /\ ser # None /\ hState[ser] = "open") =>
                 cPc'[c] = "write"
          /\ (/\ cPc[c] = "write" /\ cPc'[c] # "write"
              /\ (ser = None \/ hState[ser] # "open" \/ ser \in hFail)) =>
                 (cPc'[c] = "done" /\ result'[c] = SendFailed
                  /\ UNCHANGED <<tx, history, start>>)
          /\ (/\ cPc[c] = "writing" /\ cPc'[c] # "writing"
              /\ (hState[cHandle[c]] # "open" \/ cHandle[c] \in hFail)) =>
                 (cPc'[c] = "done" /\ result'[c] = SendFailed
                  /\ UNCHANGED <<tx, history, start>>)
      ]_vars

\* A send failed on a port that is open but whose device is gone.
C12_Witness ==
    \E c \in Callers :
        /\ cPc[c] = "done" /\ result[c] = SendFailed
        /\ ser # None /\ hState[ser] = "open" /\ ser \in hFail

\* Request c is being handled.
InProgress(c) == cPc[c] \notin {"idle", "done", "gone"}

\* The statuses of the results send_command builds.
Statuses == {"success", "error", "unknown", "json"}

\* The longest a /send takes: the timeout, the last sleep, and serial_lock
\* held by a listener inside readline() for one read timeout per burst.
LongestSend == Timeout + PollInterval + MaxEmits * ReadTimeout

\* serial_lock is free or held by a thread that is inside its with block: a
\* listener between acquiring and the end of its read attempt, which the
\* port's read timeout limits, or a request thread scanning the buffer.
LockHeldInsideWith ==
    \/ serial_lock = NoThread
    \/ \E l \in Listeners :
           /\ serial_lock = LThread(l)
           /\ lPc[l] \in {"probe", "readline", "reading"}
           /\ lPc[l] = "reading" => lDeadline[l] <= now + ReadTimeout
    \/ \E c \in Callers : serial_lock = WThread(c) /\ cPc[c] = "scan"

Classified(text) ==
    IF text = <<"{}">> THEN [status |-> "json", message |-> text]
    ELSE IF text[1] = "ACK" THEN [status |-> "success", message |-> text]
    ELSE IF text[1] = "ERR" THEN [status |-> "error", message |-> text]
    ELSE [status |-> "unknown", message |-> text]

\* C14: the result of a send that was given a line of the device is the
\* classification of that line's text: JSON passed through, ACK... success,
\* ERR... error, any other text unknown, with the text as message.
C14_ReplyClassified ==
    \A c \in Callers :
        (cPc[c] = "done" /\ wItem[c] # NoItem) =>
            result[c] = Classified(wItem[c].data)

\* C15: the line buffer never holds more than its capacity of 100 records.
C15_BufferWithinCapacity == Len(serial_buffer) <= BufferCap

\* A line was appended to a buffer that was full.
C15_Witness ==
    /\ Len(serial_buffer) = BufferCap
    /\ serial_buffer[BufferCap].timestamp >= 0
    /\ serial_buffer[1] = Preloaded(BufferCap)[2]

\* The last n elements of a sequence.
LastN(n, seq) == IF Len(seq) <= n THEN seq ELSE SubSeq(seq, Len(seq) - n + 1, Len(seq))

\* The text the read of listener l returns with, once it returns.
LineRead(l) ==
    IF FindNL(rx, 1) > 0
    THEN Strip(Decode(lLine[l] \o SubSeq(rx, 1, FindNL(rx, 1))))
    ELSE Strip(Decode(lLine[l]))

\* The read of listener l returns a text that is not empty.
Files(l) ==
    /\ lPc[l] = "reading" /\ lPc'[l] = "sleep"
    /\ Usable(lHandle[l])
    /\ LineRead(l) # <<>>

\* C16: inserting a line leaves in the buffer the most recent lines, at most
\* its capacity of them, in insertion order: every line filed is put at the
\* end and evicts, when the buffer was full, the oldest one only; nothing
\* else changes the buffer.
C16_KeepsMostRecent ==
    [][/\ \A l \in Listeners : Files(l) =>
             serial_buffer' = LastN(BufferCap,
                 Append(serial_buffer, [timestamp |-> now, data |-> LineRead(l)]))
       /\ serial_buffer' # serial_buffer => \E l \in Listeners : Files(l)
      ]_vars

\* The buffer was full and a line was inserted: the oldest is gone, the
\* others moved up in order, the new line is last.
C16_Witness ==
    /\ Len(serial_buffer) = BufferCap
    /\ serial_buffer[BufferCap].timestamp >= 0
    /\ serial_buffer[BufferCap].data = <<"ACK">>
    /\ \A i \in 1..(BufferCap - 1) : serial_buffer[i] = Preloaded(BufferCap)[i + 1]

\* C17: a line of the device is filed at most once: the buffer never holds
\* more records than the device has begun lines.
C17_LineFiledOnce == Len(serial_buffer) <= LinesBegun

\* The requests that have appended their entry and not finished log_command.
Logging == {c \in Callers : cPc[c] \in {"trim", "pop"}}

Scanning(c) == cPc[c] = "scan"

\* C19: a scan works on the buffer as it was when the scan began: no step
\* taken while a request is scanning changes the buffer, and the scan is made
\* by the thread that holds serial_lock.
C19_ScanSeesSnapshot ==
    [][\A c \in Callers : Scanning(c) =>
           /\ serial_lock = WThread(c)
           /\ serial_buffer' = serial_buffer
      ]_vars

\* A scan is in progress while a line of the device waits to be read.
C19_Witness ==
    \E c \in Callers : \E l \in Listeners :
        Scanning(c) /\ rx # <<>> /\ lPc[l] = "sleep"

\* Listener l is inside its with block, between the probe of ser and the
\* return of readline().
InCriticalSection(l) ==
    serial_lock = LThread(l) /\ lPc[l] \in {"probe", "readline", "reading"}

\* C20: the link handle is touched under serial_lock only: while a listener
\* is inside its critical section no step closes the handle it uses or makes
\* ser name something else.
C20_HandleStableWhileListening ==
    [][\A l \in Listeners : InCriticalSection(l) =>
           /\ ser' = ser
           /\ ser # None => hState'[ser] = hState[ser]
           /\ (lPc[l] = "reading" /\ lPc'[l] = "reading") =>
                  hState'[lHandle[l]] = hState[lHandle[l]]
      ]_vars

\* The connection state: what ser names and whether that object is open.
ConnectionState == <<ser, IF ser = None THEN "none" ELSE hState[ser]>>

\* A step of a listener or of a send request (its gate, its write, the
\* correlator's wait, the logging).
OutsideConnectionManagement ==
    \/ \E l \in LiveListeners : lPc'[l] # lPc[l] \/ lLine'[l] # lLine[l]
    \/ \E c \in Callers : /\ cPc'[c] # cPc[c]
                           /\ cPc[c] \in {"write", "writing", "test", "lock", "scan",
                                          "wsleep", "log", "trim", "pop"}
    \/ \E c \in Callers : SendArrives(c)

\* C21: the connection state changes in steps of the reconnect loop and of
\* connect only: no step of a listener or of send changes what ser names or
\* whether that object is open, also when a write or a read fails.
C21_OnlyManagementChangesConnection ==
    [][OutsideConnectionManagement => ConnectionState' = ConnectionState]_vars

\* A listener has ended on a failing port, and a send has failed on it, and
\* the port is still the open object ser names.
C21_Witness ==
    /\ ser # None /\ hState[ser] = "open" /\ ser \in hFail
    /\ \E l \in Listeners : lPc[l] = "dead"
    /\ \E c \in Callers : cPc[c] = "done" /\ result[c] = SendFailed

\* Request c was a connect that succeeded and has not been answered yet: its
\* port is the endpoint configured last.
Configured(c) ==
    cPc[c] = "done" /\ cPort[c] # "none" /\ result[c].status = "success"

\* The reconnect loop opens a port in this step.
Reopens == recPc = "open" /\ recPc' = "assign"

\* C22: after a successful connect(port) an automatic reconnect opens that
\* same port.
C22_ReconnectsToConfiguredPort ==
    [][\A c \in Callers : (Configured(c) /\ Reopens) => hPort'[recNew'] = cPort[c]]_vars

\* ser names an open port whose device is there.
Connected == Usable(ser)

\* The attempt of a reconnect tick fails in this step.
AttemptFails == recPc = "open" /\ ~CanOpen /\ recPc' # recPc

\* C23: a failed attempt of the reconnect loop leaves ser absent and the loop
\* running, and the loop retries without bound: whenever the device accepts
\* connections, the connection becomes open unless the device goes away
\* again first.
C23_RetriesUntilOpen ==
    /\ [][AttemptFails => ser' = None /\ recPc' = "sleep"]_vars
    /\ (deviceUp ~> (Connected \/ ~deviceUp))

\* An attempt has failed and was swallowed: ser is absent, the loop sleeps
\* until its next tick.
C23_Witness == recPc = "sleep" /\ ser = None /\ ~deviceUp /\ mainPc = "serving"

\* A listener thread is started in this step.
ListenerStarted == \E l \in Listeners : lPc[l] \in {"unborn", "dead"} /\ lPc'[l] = "sleep"

\* C24: the reconnect loop spawns a listener and sets the flag only in a tick
\* whose attempt succeeded and that found the flag clear: a failed attempt and
\* a set flag both end the tick, and the spawn and the setting of the flag
\* follow the test of the flag only.
C24_SpawnOnlyAfterSuccessAndClearFlag ==
    [][/\ AttemptFails => recPc' = "sleep"
       /\ (recPc = "testflag" /\ recPc' # recPc) =>
              recPc' = (IF listener_active THEN "sleep" ELSE "spawn")
       /\ (recPc' = "testflag" /\ recPc' # recPc) =>
              recPc = "assign" /\ ser' = recNew /\ hState[recNew] = "open"
       /\ (recPc' = "assign" /\ recPc' # recPc) => recPc = "open" /\ CanOpen
       /\ (recPc' = "spawn" /\ recPc' # recPc) => recPc = "testflag" /\ ~listener_active
       /\ (ListenerStarted /\ mainPc' = mainPc) => recPc = "spawn" /\ recPc' = "setflag"
       /\ (listener_active' /\ ~listener_active /\ mainPc' = mainPc) =>
              recPc = "setflag"
      ]_vars

\* The loop has reopened the port, found the flag clear and spawned a
\* listener; it is about to set the flag.
C24_Witness ==
    recPc = "setflag" /\ ~listener_active /\ LiveListeners # {} /\ mainPc = "serving"

\* The text has no byte in it that is no valid text.
Clean(text) == \A i \in 1..Len(text) : text[i] # BAD

\* C25: invalid bytes in a line end no listener and reach no caller: the
\* listener that was started is alive, the records filed and the results of
\* send hold no invalid byte, and no send fails.
C25_InvalidBytesDiscarded ==
    /\ LiveListeners = {1}
    /\ \A i \in 1..Len(serial_buffer) : Clean(serial_buffer[i].data)
    /\ \A c \in Callers : cPc[c] = "done" =>
           /\ Clean(result[c].message)
           /\ result[c] = Classify(resp[c])
           /\ result[c].status \in {"success", "error"}
           /\ result[c].status = "error" => result[c] = TimeoutResult

\* A line with an invalid byte was filed without it and answered a command.
C25_Witness ==
    /\ rx = <<>> /\ emits > 0
    /\ LiveListeners = {1}
    /\ \E i \in 1..Len(serial_buffer) : serial_buffer[i].data = <<"ACK">>
    /\ \E c \in Callers : cPc[c] = "done" /\ result[c].status = "success"

\* The line the device sends in bursts, whole.
FullLine == [i \in 1..(LineBursts - 1) |-> LineHead[1]] \o LineTail

\* C26: only complete lines are filed: every record is the text of one
\* line of the device up to its terminator.
C26_CompleteLinesOnly ==
    \A i \in 1..Len(serial_buffer) : serial_buffer[i].data = Strip(Decode(FullLine))

\* The posted commands with the whitespace at their ends removed.
Trimmed == { <<"PING">>, <<>>, <<"GO", SP, "UP">> }

\* C27: what send writes is the trimmed command followed by one line
\* terminator, and the command it logs is the trimmed command.
C27_TrimmedCommandWrittenAndLogged ==
    [][/\ tx' # tx =>
             \E c \in Callers :
                 /\ cPc[c] = "writing"
                 /\ cCmd[c] \in Trimmed
                 /\ tx' = Append(tx, cCmd[c] \o <<NL>>)
       /\ history' # history =>
             \E c \in Callers :
                 /\ cPc[c] = "log"
                 /\ cCmd[c] \in Trimmed
                 /\ Len(history') = Len(history) + 1
                 /\ history'[Len(history')].cmd = cCmd[c]
                 /\ \E w \in 1..Len(tx) : tx[w] = cCmd[c] \o <<NL>>
      ]_vars

\* A command posted with whitespace around it was written and logged.
C27_Witness ==
    /\ tx = << <<"GO", SP, "UP", NL>> >>
    /\ Len(history) = 1 /\ history[1].cmd = <<"GO", SP, "UP">>

\* Request c takes a step of wait_for_new_response.
CorrelatorStep(c) ==
    cPc[c] \in {"test", "lock", "scan", "wsleep"} /\ cPc'[c] # cPc[c]

\* C28: a call of the correlator changes neither the history nor the line
\* buffer, the line it returns stays in the buffer, and what it returns is a
\* line of the buffer or the sentinel, nothing of the history.
C28_CorrelatorObservesOnly ==
    [][\A c \in Callers : CorrelatorStep(c) =>
           /\ history' = history
           /\ serial_buffer' = serial_buffer
           /\ resp'[c] # resp[c] =>
                  \/ resp'[c] = NoResponse
                  \/ \E i \in 1..Len(serial_buffer') :
                         /\ wItem'[c] = serial_buffer'[i]
                         /\ resp'[c] = serial_buffer'[i].data
      ]_vars

\* The correlator has returned a line: the line is still in the buffer and
\* the history is as it was.
C28_Witness ==
    \E c \in Callers :
        /\ cPc[c] = "log" /\ wItem[c] # NoItem
        /\ \E i \in 1..Len(serial_buffer) : serial_buffer[i] = wItem[c]
        /\ history \in FullHistories

\* C29: at most one listener thread is alive at any time.
C29_AtMostOneListener == Cardinality(LiveListeners) <= 1

\* C30: with sends issued one after another, the line that answered one send
\* answers no later one.
C30_LineAnswersOneSend ==
    \A c, d \in Callers :
        (c # d /\ Answered(c) /\ Answered(d) /\ wItem[c] # NoItem) => wItem[d] # wItem[c]

\* C31: send returns the timeout result only if its wait found no qualifying
\* line in the line buffer: a request that was handed a record of the buffer,
\* whatever its text, is never answered 'No response from robot'.
C31_TimeoutOnlyWithoutLine ==
    \A c \in Callers :
        (cPc[c] = "done" /\ result[c] = TimeoutResult) => wItem[c] = NoItem

\* The command of request c has been written and log_command has not run for
\* it yet: the request is in wait_for_new_response or about to log.
AwaitingLog(c) == cPc[c] \in {"test", "lock", "scan", "wsleep", "log"}

\* log_command has run for request c.
Recorded(c) ==
    \/ cPc[c] \in {"trim", "pop"}
    \/ cPc[c] = "done" /\ result[c] \notin {NotAvailable, SendFailed}

\* C32: send appends exactly one record to history when, and only when, its
\* write succeeded: history holds one record for every command written whose
\* wait is over; the record of a request holds its command and the response it
\* was given, the 'No response' sentinel when it timed out; a request answered
\* 'Serial port not available' or 'Failed to send command' left no record.
C32_OneRecordIffWritten ==
    /\ Len(history) + Cardinality({c \in Callers : AwaitingLog(c)}) = Len(tx)
    /\ \A c \in Callers :
          Recorded(c) =>
              /\ history # <<>>
              /\ history[Len(history)].cmd = cCmd[c]
              /\ history[Len(history)].response = resp[c]
              /\ wItem[c] = NoItem => resp[c] = NoResponse
    /\ \A c \in Callers :
          (cPc[c] = "done" /\ result[c] \in {NotAvailable, SendFailed}) =>
              Len(history) = Len(tx)

\* A send has timed out and its command is in history with the sentinel.
C32_Witness ==
    \E c \in Callers :
        /\ cPc[c] = "done"
        /\ wItem[c] = NoItem
        /\ now - start[c] >= Timeout
        /\ history # <<>>
        /\ history[Len(history)] = [cmd |-> cCmd[c], response |-> NoResponse, timestamp |-> now]

\* The reconnect loop's round finds ser set and ser.in_waiting does not raise.
HealthyTick == recPc = "check" /\ recPc' # "check" /\ ser # None /\ ~ProbeRaises(ser)

\* C33: a round of the reconnect loop that finds a handle whose probe
\* succeeds changes nothing: ser, the handles, listener_active, the line
\* buffer and history stay as they are, no listener is started, and the loop
\* goes to its sleep.
C33_HealthyTickChangesNothing ==
    [][HealthyTick =>
          /\ recPc' = "sleep"
          /\ UNCHANGED <<ser, hState, hFail, hPort, listener_active, serial_lock,
                         serial_buffer, history, lPc, recNew>>]_vars

\* The loop sleeps after a round in which the probe of the open port
\* succeeded, while lines of the device are in the buffer.
C33_Witness ==
    /\ recPc = "sleep"
    /\ ~recBroken
    /\ ser # None
    /\ ~ProbeRaises(ser)
    /\ listener_active
    /\ serial_buffer # <<>>

ConnectSucceeds(c) == cPc[c] = "kassign" /\ cPc'[c] = "done"

\* connect of request c returns the exception of close() or of Serial(...).
ConnectFails(c) == cPc[c] \in {"kclose", "kopen"} /\ cPc'[c] = "done"

\* C35: connect(port) closes the open handle before it opens the new one:
\* when a connect succeeds ser names an open port on the given endpoint and
\* the object ser named until then has been closed; when a connect fails ser
\* names no open port, so that a following send is answered 'Serial port not
\* available'.
C35_ConnectReplacesHandle ==
    [][\A c \in Callers :
          /\ ConnectSucceeds(c) =>
                /\ ser' # None /\ IsOpen(ser)' /\ hPort'[ser'] = cPort[c]
                /\ (ser # None /\ ser # ser') => ~IsOpen(ser)
          /\ ConnectFails(c) => (ser' = None \/ ~IsOpen(ser)')]_vars

\* Request c, a /status, takes a step; it returns its answer in this step.
StatusStep(c) ==
    \/ cPc[c] = "idle" /\ cPc'[c] \in {"sprobe", "done"}
    \/ cPc[c] \in {"sprobe", "sopen"} /\ cPc'[c] # cPc[c]
StatusAnswers(c) == StatusStep(c) /\ cPc'[c] = "done"

\* C36: status answers connected = true exactly when ser is set, the probe of
\* in_waiting succeeds and the port is open, and it changes no state: where a
\* round of the reconnect loop closes and clears the handle after a failed
\* probe, status leaves ser, the ports, listener_active, the line buffer and
\* history as they are.
C36_StatusObservesOnly ==
    [][\A c \in Callers :
          StatusStep(c) =>
              /\ UNCHANGED <<ser, hState, hFail, hPort, listener_active, serial_lock,
                             serial_buffer, history, rx, tx, recvars, lvars>>
              /\ cPc'[c] = "sopen" => (ser # None /\ ~ProbeRaises(ser))
              /\ StatusAnswers(c) =>
                    /\ result'[c] \in {StatusResult(TRUE), StatusResult(FALSE)}
                    /\ result'[c] = StatusResult(TRUE) =>
                          (cPc[c] = "sopen" /\ ser # None /\ IsOpen(ser))
                    /\ result'[c] = StatusResult(FALSE) =>
                          (ser = None \/ ProbeRaises(ser) \/ ~IsOpen(ser))]_vars

\* status has answered 'not connected' after a probe that failed, and ser
\* still names the port, still open, with listener_active set.
C36_Witness ==
    \E c \in Callers :
        /\ cPc[c] = "done"
        /\ result[c] = StatusResult(FALSE)
        /\ ser # None /\ IsOpen(ser) /\ ProbeRaises(ser)
        /\ listener_active

\* The grab loop holds an open capture and the latest frame is one of the
\* camera as it is plugged in now.
CamDelivers == cap = "open" /\ ~camLost /\ frame = camOutages

\* C37: if the camera is available from some point on, the grab loop
\* eventually holds an open capture and delivers frames again, also when the
\* open in start() failed or a reopen failed (cap is None).
C37_CameraRecovers == <>[]camUp => <>[]CamDelivers

\* The grab loop takes the step that grabs a frame; it begins a reopen.
Grabs == loopPc = "read" /\ loopPc' # "read"
BeginsReopen == loopPc # "release" /\ loopPc' = "release"

\* C38: the grab loop reopens the camera exactly when 60 grabs in a row have
\* failed: a grab that succeeds sets fail_streak to 0, one that fails adds 1,
\* the reopen begins with the grab that makes it 60 and with no other step,
\* the reopen sets it to 0, nothing else changes it, and it is below 60
\* whenever an iteration of the loop begins.
C38_ReopenAfterSixtyFailures ==
    [][/\ Grabs =>
            /\ fail_streak' = IF GrabOk THEN 0 ELSE fail_streak + 1
            /\ BeginsReopen <=> (~GrabOk /\ fail_streak + 1 = ReopenAfter)
       /\ BeginsReopen => Grabs
       /\ (loopPc = "assign" /\ loopPc' # "assign") => fail_streak' = 0
       /\ (~Grabs /\ loopPc # "assign") => fail_streak' = fail_streak
       /\ loopPc' \in {"test", "check", "read"} => fail_streak' < ReopenAfter]_vars

\* Sixty grabs in a row have failed and the loop is about to reopen.
C38_Witness == loopPc = "release" /\ fail_streak = ReopenAfter /\ ~_stop

\* C39: once stop() has returned and the grab loop has ended, no capture is
\* open, however stop() and the loop interleave.
C39_NoCaptureOpenAfterStop ==
    (stopPc = "returned" /\ loopPc = "exited") => (cap # "open" /\ capNew # "open")

====
